---------------------------- MODULE Spec2Model ----------------------------
(***************************************************************************)
(* Rate-governance core of the document-analysis service:                  *)
(*   app/core/ai_gateway.py     call_openai_rate_limited, _get_sem_for,    *)
(*                              OpenAIRateLimitError, _build_limiter       *)
(*   app/core/*_handler.py      the job handlers that talk to the model    *)
(*   app/utils/job_manager.py   create_job, update_job_status              *)
(*   app/utils/rate_limiter.py  the per-user and per-key job counters      *)
(*                                                                         *)
(* Worker threads are the processes.  Each gateway call is cut at the      *)
(* points where the thread can be pre-empted with shared state at stake:   *)
(*   idle/done -> acquire -> ratelimit -> in_call -> finally -> done       *)
(***************************************************************************)
EXTENDS Integers, Sequences, FiniteSets, TLC

(***************************************************************************)
(* Bounds of the model.                                                    *)
(***************************************************************************)
NumThreads == 2          \* worker threads
MaxConcurrency == 1      \* largest OPENAI_MAX_CONCURRENCY_PER_KEY tried
MaxRpm == 2              \* largest OPENAI_RPM_PER_KEY tried
MaxTicks == 2            \* the clock advances this many times, then stops
SubMilli == 10           \* resolution of a reset estimate: units per ms
NumJobs == 2             \* jobs accepted over HTTP
MaxPrompts == 2          \* most prompts in one batch extraction
MaxBatches == 2          \* most full batches of old jobs in the table

(***************************************************************************)
(* Program constants.                                                      *)
(***************************************************************************)
SECOND == 1                      \* Duration.SECOND
MINUTE == 60                     \* Duration.MINUTE, the limiter's window
HTTP_TOO_MANY_REQUESTS == 429    \* status_code of OpenAIRateLimitError
RoundUpNumerator == 999          \* the 0.999 added before int(): 999/1000
RoundUpDenominator == 1000
MAX_JOBS_PER_USER == 1           \* app.config
MAX_JOBS_PER_API_KEY == 20       \* app.config
attempts == 5                    \* cleanup_old_jobs: attempts
batch_size == 500                \* cleanup_old_jobs: rows per call
RetrySleepSecs == 5              \* cleanup_old_jobs: time.sleep(5)
HTTP_OK == 200                   \* get_job_result: the answer with a payload
HTTP_400_BAD_REQUEST == 400      \* fastapi.status
HTTP_401_UNAUTHORIZED == 401
HTTP_404_NOT_FOUND == 404

TickSecs == MINUTE \div 2         \* the clock's step, seconds

Threads == 1..NumThreads
Keys == {"key-A", "key-B"}       \* credentials (api_key)

\* A reset estimate is a number of seconds with a fractional part; it is kept
\* as an integer count of units of 1/(1000*SubMilli) second.
UnitsPerSecond == RoundUpDenominator * SubMilli

NoKey == "none"                  \* api_key of a thread that is in no call

JobIds == 1..NumJobs             \* job_id: a fresh uuid4 per accepted request
Users == {"user-1", "user-2"}    \* user_id
Handlers == {"single", "batch", "classification", "action"}

VARIABLES
    OPENAI_RPM_PER_KEY,              \* config: window capacity
    OPENAI_RPM_FAIL_FAST,            \* config: TRUE = reject, FALSE = block
    OPENAI_MAX_CONCURRENCY_PER_KEY,  \* config: 0 or less disables the gate
    sems,         \* _sems: api_key -> available permits of its Semaphore
    bucket,       \* the limiter's per-identity window of admission timestamps
    now,          \* wall clock, seconds
    pc,           \* per thread: position inside call_openai_rate_limited
    api_key,      \* per thread: the api_key argument of the call in progress
    sem,          \* per thread: local `sem` is not None
    admitted,     \* per thread: the limiter let the latest call in
    apiCalls,     \* per thread: invocations of call_openai_api in that call
    outcome,      \* per thread: what the latest call returned or raised
    lowLevel,     \* observer: per thread, what call_openai_api itself gave
    started,      \* per thread: when its running call_openai_api began
    admissions,   \* observer: per key, admission times of the trailing minute
    epochCalls,   \* observer: per key, limiter consultations since the
                  \*   window last aged out completely (-1: it never did)
    meta_info,    \* the meta_info of the BucketFullException being translated
    raised,       \* the error the except clause raised for meta_info
    jobs,         \* table jobs: job_id -> row (status "absent": no row)
    user_jobs,    \* table rate_limit_users: user_id -> current_jobs
    key_jobs,     \* table rate_limit_api_keys: openai_api_key -> current_jobs
    hpc,          \* per job: position of its worker inside the handler
    request,      \* per job: request_data (handler, user_id, api key, prompts)
    seen,         \* per job: the counters check_and_increment_rate_limits read
    ok,           \* per job: what check_and_increment_rate_limits returned
    batch,        \* per job: the pool of execute_parallel_extraction
    response,     \* per job: what call_openai_api gave its handler
    sem_lock,     \* _sem_lock: the thread that holds it, 0 when free
    semOf,        \* _sems: api_key -> the Semaphore object stored for it
    made,         \* observer: per key, Semaphore objects constructed so far
    gpc,          \* per thread: position inside _get_sem_for
    gkey,         \* per thread: the api_key argument of _get_sem_for
    gsem,         \* per thread: local `sem` of _get_sem_for
    gret,         \* per thread: what its latest _get_sem_for returned
    gateway_fn,   \* module global call_openai_rate_limited: what it names
    site_fn,      \* per call site: what its imported name is bound to
    ran,          \* per call site: what its latest gateway call ran
    store_call,   \* the job-store call being made, with its arguments
    store_ret,    \* what that call gave its caller
    cpc,          \* position inside cleanup_old_jobs
    attempt,      \* cleanup_old_jobs: the loop variable
    old_rows,     \* jobs rows with created_at < cutoff
    new_rows,     \* jobs rows not older than the cutoff
    cleanup_ret,  \* what cleanup_old_jobs returned
    cleanup_err,  \* the error of its latest failed attempt
    slept,        \* seconds it has slept between attempts
    removed,      \* observer: rows its DELETEs have committed
    answer,       \* what the latest GET /jobs/{job_id}/result answered
    ppc,          \* position inside execute_parallel_extraction
    prompt_items, \* its prompt_items: the prompt_type of each item
    futs,         \* per item: whether its future is still running
    exec_ret,     \* observer: per item, what exec_one returned
    results,      \* the dict `results`, in insertion order
    final_result  \* what execute_parallel_extraction returned

semVars == << sem_lock, semOf, made, gpc, gkey, gsem, gret >>

gatewayVars == << sems, bucket, now, pc, api_key, sem, admitted, apiCalls,
                 outcome, lowLevel, started, admissions, epochCalls,
                 semVars >>

errorVars == << meta_info, raised >>

jobVars == << jobs, user_jobs, key_jobs, hpc, request, seen, ok, batch,
             response >>

swapVars == << gateway_fn, site_fn, ran >>

storeVars == << store_call, store_ret >>

cleanupVars == << cpc, attempt, old_rows, new_rows, cleanup_ret,
                 cleanup_err, slept, removed >>

resultVars == << answer >>

poolVars == << ppc, prompt_items, futs, exec_ret, results, final_result >>

moreVars == << resultVars, poolVars >>

\* What the gateway, the except clause and the job handlers never touch.
miscVars == << swapVars, storeVars, cleanupVars, moreVars >>

vars == << OPENAI_RPM_PER_KEY, OPENAI_RPM_FAIL_FAST,
           OPENAI_MAX_CONCURRENCY_PER_KEY, gatewayVars, errorVars, jobVars,
           miscVars >>

config == << OPENAI_RPM_PER_KEY, OPENAI_RPM_FAIL_FAST,
             OPENAI_MAX_CONCURRENCY_PER_KEY >>

(***************************************************************************)
(* Values a call can end with.                                             *)
(***************************************************************************)
NoOutcome ==
    [kind |-> "none", value |-> "none", status_code |-> 0,
     detail_limit |-> 0, has_retry_after |-> FALSE, retry_after |-> 0]

\* What call_openai_api can hand back: a response dict (by its status) ...
Responses == {"completed", "incomplete"}
\* ... or an exception (RuntimeError on a non-200 status, a transport error).
ApiErrors == {"RuntimeError"}

ResultOutcome(r) == [NoOutcome EXCEPT !.kind = "result", !.value = r]
ExceptionOutcome(e) == [NoOutcome EXCEPT !.kind = "exception", !.value = e]


(***************************************************************************)
(* OpenAIRateLimitError.__init__(detail, retry_after)                      *)
(***************************************************************************)
\* str(int(retry_after + 0.999)) for retry_after >= 0, in whole seconds.
RetryAfterHeader(retry_after) ==
    (retry_after + RoundUpNumerator * SubMilli) \div UnitsPerSecond

\* Fault: the header is set for every value that is not None.
SetsRetryAfterAnyValue(has_value, retry_after) == has_value

\* `retry_after is not None and retry_after >= 0`
SetsRetryAfter(has_value, retry_after) == has_value /\ retry_after >= 0

\* The exception object: status 429, the detail text (kept as the limit it
\* names, "<limit>/minute"), and the headers dict.
OpenAIRateLimitError(limit, has_value, retry_after) ==
    [kind |-> "rate_limit", value |-> "OpenAIRateLimitError",
     status_code |-> HTTP_TOO_MANY_REQUESTS,
     detail_limit |-> limit,
     has_retry_after |-> SetsRetryAfter(has_value, retry_after),
     retry_after |-> IF SetsRetryAfter(has_value, retry_after)
                     THEN RetryAfterHeader(retry_after) ELSE 0]

(***************************************************************************)
(* BucketFullException.meta_info as the except clause reads it: the        *)
(* 'reset_in' entry is absent, present but not convertible by float(), or  *)
(* a number of seconds (here in units of 1/UnitsPerSecond second).         *)
(***************************************************************************)
ResetEstimates ==
    \* 0.0, 0.1, ... 2.4, 2.5 seconds
    { (i * UnitsPerSecond) \div 10 : i \in 0..25 }
    \* and fractions just above and just below a whole second
    \cup { 1, UnitsPerSecond - 1, UnitsPerSecond + 1, 2 * UnitsPerSecond + 1 }

MetaInfos ==
    { [reset_in_kind |-> "absent", reset_in |-> 0],
      [reset_in_kind |-> "unreadable", reset_in |-> 0] }
    \cup { [reset_in_kind |-> "float", reset_in |-> r] : r \in ResetEstimates }

\* Fault: the estimate read from meta_info is not passed on.
TranslateBucketFullNoHint(meta) ==
    OpenAIRateLimitError(OPENAI_RPM_PER_KEY, FALSE, 0)

\* except BucketFullException: reset_in stays None unless meta holds a
\* readable 'reset_in'; then raise OpenAIRateLimitError(detail, reset_in).
TranslateBucketFull(meta) ==
    OpenAIRateLimitError(OPENAI_RPM_PER_KEY,
                         meta.reset_in_kind = "float", meta.reset_in)

(***************************************************************************)
(* _build_limiter: rate = RequestRate(OPENAI_RPM_PER_KEY, Duration.MINUTE) *)
(***************************************************************************)
\* Faults: the limit off by one either way; Duration.SECOND for the window.
RateLimitPlusOne == OPENAI_RPM_PER_KEY + 1
RateLimitMinusOne == OPENAI_RPM_PER_KEY - 1
RateLimit == OPENAI_RPM_PER_KEY
RateIntervalSecond == SECOND
RateInterval == MINUTE

\* Fault: the delay flag is not passed, so the limiter raises in either mode.
RatelimitDelayNotPassed == FALSE
\* limiter.ratelimit(api_key, delay = not OPENAI_RPM_FAIL_FAST)
RatelimitDelay == ~OPENAI_RPM_FAIL_FAST

(***************************************************************************)
(* The RPM limiter (section 4.1): a sliding window over the admission      *)
(* times of one identity.  An entry counts while it is younger than the    *)
(* interval.                                                               *)
(***************************************************************************)
Younger(log, time, interval) ==
    SelectSeq(log, LAMBDA ts : time - ts < interval)

Counted(k) == Younger(bucket[k], now, RateInterval)

InWindow(k) == Len(Counted(k))

\* Fault: a check that does not see the admissions of this very instant,
\* as when two threads read the count before either has added its entry.
LimiterHasRoomStale(k) ==
    Len(SelectSeq(Counted(k), LAMBDA ts : ts < now)) < RateLimit

\* The admit/reject decision, taken atomically with the count.
LimiterHasRoom(k) == InWindow(k) < RateLimit

\* Fault: a rejected attempt is logged in the window all the same.
WindowAfterRejectCounted(k) == Append(bucket[k], now)

\* A rejected attempt adds nothing to the window.
WindowAfterReject(k) == bucket[k]

\* Fault: a call whose body raised gets its entry taken out again.
WindowAfterRaiseRefunded(k) ==
    IF bucket[k] = << >> THEN bucket[k]
    ELSE SubSeq(bucket[k], 1, Len(bucket[k]) - 1)

\* Leaving the with statement by an exception takes nothing out of the
\* window.
WindowAfterRaise(k) == bucket[k]

\* The estimate a rejection carries: seconds until the oldest counted
\* request ages out of the window.
LimiterMeta(k) ==
    [reset_in_kind |-> "float",
     reset_in |-> IF Counted(k) = << >> THEN 0
                  ELSE (Head(Counted(k)) + RateInterval - now)
                       * UnitsPerSecond]

(***************************************************************************)
(* _get_sem_for(api_key), the whole body under _sem_lock                   *)
(***************************************************************************)
\* Fault: one permit too few.
NewSemaphoreOneShort == OPENAI_MAX_CONCURRENCY_PER_KEY - 1
\* Fault: one permit too many.
NewSemaphoreOffByOne == OPENAI_MAX_CONCURRENCY_PER_KEY + 1

\* sem = Semaphore(max_conc)
NewSemaphore == OPENAI_MAX_CONCURRENCY_PER_KEY

\* Fault: the early return is missing, a semaphore is made for any setting.
GateAlwaysEnabled == TRUE
\* `if max_conc <= 0: return None`
GateEnabled == OPENAI_MAX_CONCURRENCY_PER_KEY > 0

\* Fault: creating the semaphore of a new key rebuilds the whole dict, so
\* the permits held for other keys are forgotten.
SemsAfterGetRebuildsAll(k) ==
    IF GateEnabled /\ k \notin DOMAIN sems
    THEN [x \in DOMAIN sems \cup {k} |-> NewSemaphore]
    ELSE sems
SemsAfterGet(k) ==
    IF GateEnabled /\ k \notin DOMAIN sems
    THEN sems @@ (k :> NewSemaphore)
    ELSE sems

(***************************************************************************)
(* Initial state: the module has just been imported.  The configuration is *)
(* read once; no semaphore exists yet; the limiter has admitted nothing.   *)
(***************************************************************************)
\* None where a Semaphore object is expected; an object is known by the key
\* it was made for and its number among the objects made for that key.
NoSem == << NoKey, 0 >>

ConfigInit ==
    /\ OPENAI_RPM_PER_KEY \in 1..MaxRpm
    /\ OPENAI_RPM_FAIL_FAST \in BOOLEAN
    /\ OPENAI_MAX_CONCURRENCY_PER_KEY \in (0 - 1)..MaxConcurrency

GatewayInit ==
    /\ sems = << >>
    /\ bucket = [k \in Keys |-> << >>]
    /\ now = 0
    /\ pc = [t \in Threads |-> "idle"]
    /\ api_key = [t \in Threads |-> NoKey]
    /\ sem = [t \in Threads |-> FALSE]
    /\ admitted = [t \in Threads |-> FALSE]
    /\ apiCalls = [t \in Threads |-> 0]
    /\ outcome = [t \in Threads |-> NoOutcome]
    /\ lowLevel = [t \in Threads |-> NoOutcome]
    /\ started = [t \in Threads |-> 0]
    /\ sem_lock = 0
    /\ semOf = [k \in Keys |-> NoSem]
    /\ made = [k \in Keys |-> 0]
    /\ gpc = [t \in Threads |-> "out"]
    /\ gkey = [t \in Threads |-> NoKey]
    /\ gsem = [t \in Threads |-> NoSem]
    /\ gret = [t \in Threads |-> NoSem]
    /\ admissions = [k \in Keys |-> << >>]
    /\ epochCalls = [k \in Keys |-> 0 - 1]

\* The tables are empty and no request has been accepted.
NoRow == [status |-> "absent", progress |-> 0, result |-> "none",
          error_message |-> "none"]

\* The pool of a batch: prompts not yet started, workers inside
\* call_openai_api, items that ended in exec_one's except clause, and
\* whether call_openai_api itself raised for one of them.
NoBatch == [pending |-> 0, calling |-> 0, failed |-> 0, raised |-> FALSE]

NoResponse == [outcome |-> NoOutcome, reason |-> "none"]

NoRequest == [handler |-> "none", user_id |-> "none",
              openai_api_key |-> NoKey, prompts |-> 0]

JobsInit ==
    /\ jobs = [j \in JobIds |-> NoRow]
    /\ user_jobs = [u \in Users |-> 0]
    /\ key_jobs = [k \in Keys |-> 0]
    /\ hpc = [j \in JobIds |-> "none"]
    /\ request = [j \in JobIds |-> NoRequest]
    /\ seen = [j \in JobIds |-> [user |-> 0, key |-> 0]]
    /\ ok = [j \in JobIds |-> "none"]
    /\ batch = [j \in JobIds |-> NoBatch]
    /\ response = [j \in JobIds |-> NoResponse]

ErrorInit ==
    /\ meta_info = [reset_in_kind |-> "absent", reset_in |-> 0]
    /\ raised = NoOutcome

\* Places that call the gateway: one that imported the function by name,
\* `from app.core.ai_gateway import call_openai_rate_limited`, and one that
\* imported the module and calls `ai_gateway.call_openai_rate_limited(...)`.
Sites == {"from_import", "attribute"}

NoRun == [impl |-> "none", global |-> "none"]

\* Module app.core.ai_gateway has been executed: its global
\* call_openai_rate_limited names the function defined in it.  No caller
\* module has been imported yet and nothing has been called.
SwapInit ==
    /\ gateway_fn = "real"
    /\ site_fn = [s \in Sites |-> "unbound"]
    /\ ran = [s \in Sites |-> NoRun]

\* No job-store call is being made.
NoStoreCall ==
    [fn |-> "none", job_id |-> 0, status |-> "none", progress |-> 0,
     result |-> "none", error_message |-> "none", db_ok |-> TRUE]

StoreInit ==
    /\ store_call = NoStoreCall
    /\ store_ret = "pending"

\* cleanup_old_jobs is not running; the jobs table holds nothing to clean.
CleanupIdle ==
    /\ cpc = "idle"
    /\ attempt = 0
    /\ cleanup_ret = 0
    /\ cleanup_err = "none"
    /\ slept = 0
    /\ removed = 0

CleanupInit ==
    /\ CleanupIdle
    /\ old_rows = 0
    /\ new_rows = 0

\* The payload of an answer that carries none.
NoPayload == [status |-> "none", result |-> "none", error_message |-> "none"]

\* Nobody has asked for a result yet.
NoAnswer == [job_id |-> 0, status_code |-> 0, payload |-> NoPayload]

ResultInit == answer = NoAnswer

\* execute_parallel_extraction is not running.
PoolInit ==
    /\ ppc = "idle"
    /\ prompt_items = << >>
    /\ futs = << >>
    /\ exec_ret = << >>
    /\ results = << >>
    /\ final_result = [keys |-> {}, execution_errors |-> << >>]

MiscInit ==
    SwapInit /\ StoreInit /\ CleanupInit /\ ResultInit /\ PoolInit

Init == ConfigInit /\ GatewayInit /\ ErrorInit /\ JobsInit /\ MiscInit

(***************************************************************************)
(* call_openai_rate_limited(api_key, ...), step by step.                   *)
(***************************************************************************)
\* Entry: sem = _get_sem_for(api_key)
GetSemFor(t, k) ==
    /\ pc[t] \in {"idle", "done"}
    /\ api_key' = [api_key EXCEPT ![t] = k]
    /\ sems' = SemsAfterGet(k)
    /\ sem' = [sem EXCEPT ![t] = GateEnabled]
    /\ admitted' = [admitted EXCEPT ![t] = FALSE]
    /\ apiCalls' = [apiCalls EXCEPT ![t] = 0]
    /\ outcome' = [outcome EXCEPT ![t] = NoOutcome]
    /\ lowLevel' = [lowLevel EXCEPT ![t] = NoOutcome]
    /\ pc' = [pc EXCEPT ![t] = "acquire"]
    /\ UNCHANGED << config, bucket, now, started, admissions, epochCalls,
                    errorVars, miscVars, jobVars, semVars >>

\* `if sem is not None: sem.acquire()` -- blocks while no permit is left.
SemAcquire(t) ==
    /\ pc[t] = "acquire"
    /\ IF sem[t]
       THEN /\ sems[api_key[t]] > 0
            /\ sems' = [sems EXCEPT ![api_key[t]] = @ - 1]
       ELSE UNCHANGED sems
    /\ pc' = [pc EXCEPT ![t] = "ratelimit"]
    /\ UNCHANGED << config, bucket, now, api_key, sem, admitted, apiCalls,
                    outcome, lowLevel, started, admissions, epochCalls,
                    errorVars, miscVars, jobVars, semVars >>

\* The observer's count of the consultations for key k since its window
\* last aged out; it stops counting past MaxRpm + 1.
EpochAfterConsult(k) ==
    IF epochCalls[k] < 0 \/ epochCalls[k] > MaxRpm THEN epochCalls[k]
    ELSE epochCalls[k] + 1

\* Fault: the rejection is swallowed and the with body runs all the same.
ApiCallsAfterRejectRunsBody(t) == apiCalls[t] + 1

\* BucketFullException leaves the with statement before its body runs:
\* call_openai_api is not invoked on this path.
ApiCallsAfterReject(t) == apiCalls[t]

\* `with _limiter.ratelimit(api_key, delay=...)` lets the thread in: the
\* request is counted, and the body invokes call_openai_api.
LimiterAdmit(t) ==
    /\ pc[t] = "ratelimit"
    /\ LimiterHasRoom(api_key[t])
    /\ bucket' = [bucket EXCEPT ![api_key[t]] = Append(@, now)]
    /\ admissions' = [admissions EXCEPT ![api_key[t]] = Append(@, now)]
    /\ epochCalls' = [epochCalls EXCEPT
                         ![api_key[t]] = EpochAfterConsult(api_key[t])]
    /\ admitted' = [admitted EXCEPT ![t] = TRUE]
    /\ apiCalls' = [apiCalls EXCEPT ![t] = @ + 1]
    /\ started' = [started EXCEPT ![t] = now]
    /\ pc' = [pc EXCEPT ![t] = "in_call"]
    /\ UNCHANGED << config, sems, now, api_key, sem, outcome, lowLevel,
                    errorVars, miscVars, jobVars, semVars >>

\* The window is full and delay is off: ratelimit() raises
\* BucketFullException, which the except clause turns into the 429 error.
\* (With delay on the thread stays at "ratelimit" until the window has room.)
LimiterReject(t) ==
    /\ pc[t] = "ratelimit"
    /\ ~LimiterHasRoom(api_key[t])
    /\ ~RatelimitDelay
    /\ outcome' = [outcome EXCEPT
                      ![t] = TranslateBucketFull(LimiterMeta(api_key[t]))]
    /\ epochCalls' = [epochCalls EXCEPT
                         ![api_key[t]] = EpochAfterConsult(api_key[t])]
    /\ apiCalls' = [apiCalls EXCEPT ![t] = ApiCallsAfterReject(t)]
    /\ bucket' = [bucket EXCEPT
                     ![api_key[t]] = WindowAfterReject(api_key[t])]
    /\ pc' = [pc EXCEPT ![t] = "finally"]
    /\ UNCHANGED << config, sems, now, api_key, sem, admitted, lowLevel,
                    started, admissions, errorVars, miscVars, jobVars, semVars
                    >>

\* `return call_openai_api(...)`: the caller gets the response as it is.
Returned(o) == o

\* Fault: a bare except clause turns every exception into the 429 error.
PropagatedAsRateLimit(o) ==
    OpenAIRateLimitError(OPENAI_RPM_PER_KEY, FALSE, 0)

\* An exception of call_openai_api is no BucketFullException: it passes
\* the except clause and the finally clause unchanged.
Propagated(o) == o

\* call_openai_api returns its response dict.
ApiReturn(t) ==
    /\ pc[t] = "in_call"
    /\ \E r \in Responses :
          /\ lowLevel' = [lowLevel EXCEPT ![t] = ResultOutcome(r)]
          /\ outcome' = [outcome EXCEPT ![t] = Returned(ResultOutcome(r))]
    /\ started' = [started EXCEPT ![t] = 0]
    /\ pc' = [pc EXCEPT ![t] = "finally"]
    /\ UNCHANGED << config, sems, bucket, now, api_key, sem, admitted,
                    apiCalls, admissions, epochCalls, errorVars, miscVars,
                    jobVars, semVars >>

\* Fault: a failed call is tried again, through the limiter.
AfterRaiseRetry == "ratelimit"

\* Where an exception of call_openai_api takes the thread: out of the try
\* statement, to the finally clause; there is no loop around the call.
AfterRaise == "finally"

\* call_openai_api raises.
ApiRaise(t) ==
    /\ pc[t] = "in_call"
    /\ \E e \in ApiErrors :
          /\ lowLevel' = [lowLevel EXCEPT ![t] = ExceptionOutcome(e)]
          /\ outcome' = [outcome EXCEPT
                            ![t] = Propagated(ExceptionOutcome(e))]
    /\ bucket' = [bucket EXCEPT
                     ![api_key[t]] = WindowAfterRaise(api_key[t])]
    /\ started' = [started EXCEPT ![t] = 0]
    /\ pc' = [pc EXCEPT ![t] = AfterRaise]
    /\ UNCHANGED << config, sems, now, api_key, sem, admitted, apiCalls,
                    admissions, epochCalls, errorVars, miscVars, jobVars,
                    semVars >>

\* Fault: the release sits after the call instead of in a finally clause,
\* so only a normal return reaches it.
ReleasesSlotOnReturn(t) == sem[t] /\ outcome[t].kind = "result"

\* Fault: the rate-limit error is raised outside the try/finally, so the
\* rejection path skips the release.
ReleasesSlotNotOnReject(t) == sem[t] /\ outcome[t].kind # "rate_limit"
\* finally: `if sem is not None: sem.release()`
ReleasesSlot(t) == sem[t]

\* The finally clause runs and the call is over: its locals are gone, the
\* caller has the outcome.
Finally(t) ==
    /\ pc[t] = "finally"
    /\ sems' = IF ReleasesSlot(t)
               THEN [sems EXCEPT ![api_key[t]] = @ + 1]
               ELSE sems
    /\ pc' = [pc EXCEPT ![t] = "done"]
    /\ api_key' = [api_key EXCEPT ![t] = NoKey]
    /\ sem' = [sem EXCEPT ![t] = FALSE]
    /\ UNCHANGED << config, bucket, now, admitted, apiCalls, outcome,
                    lowLevel, started, admissions, epochCalls, errorVars,
                    miscVars, jobVars, semVars >>

\* Time passes, half a window at a time.  Entries that aged out of the
\* limiter's window are dropped; the observer keeps the trailing minute.
\* A running call_openai_api keeps the time it began.
Advance ==
    /\ now' = now + TickSecs
    /\ bucket' = [k \in Keys |-> Younger(bucket[k], now', RateInterval)]
    /\ admissions' = [k \in Keys |-> Younger(admissions[k], now', MINUTE)]
    /\ epochCalls' = [k \in Keys |->
                         IF admissions[k] # << >> /\ admissions'[k] = << >>
                         THEN 0 ELSE epochCalls[k]]
    /\ UNCHANGED << config, sems, pc, api_key, sem, admitted, apiCalls,
                    outcome, lowLevel, started, errorVars, miscVars, jobVars,
                    semVars >>

\* The clock of the gateway's threads stops after MaxTicks steps.
Tick ==
    /\ now + TickSecs <= MaxTicks * TickSecs
    /\ Advance

Next ==
    \/ \E t \in Threads, k \in Keys : GetSemFor(t, k)
    \/ \E t \in Threads : SemAcquire(t)
    \/ \E t \in Threads : LimiterAdmit(t)
    \/ \E t \in Threads : LimiterReject(t)
    \/ \E t \in Threads : ApiReturn(t)
    \/ \E t \in Threads : ApiRaise(t)
    \/ \E t \in Threads : Finally(t)
    \/ Tick

Spec == Init /\ [][Next]_vars

(***************************************************************************)
(* Callers started together, one call each, with a low-level call that     *)
(* takes time.  The threads are operating-system threads: one that can     *)
(* take its next step is eventually run, a released semaphore wakes a      *)
(* waiter, and a limiter that delays tries again as time passes.           *)
(***************************************************************************)
\* The duration D of one call_openai_api (the sleep of the tests' slow_call).
CallSecs == TickSecs

\* threading.Thread(target=worker).start(): the thread makes its one call.
CallOnce(t, k) ==
    /\ pc[t] = "idle"
    /\ GetSemFor(t, k)

\* call_openai_api has run for its duration.
Elapsed(t) == now >= started[t] + CallSecs

TimedReturn(t) ==
    /\ Elapsed(t)
    /\ ApiReturn(t)

TimedRaise(t) ==
    /\ Elapsed(t)
    /\ ApiRaise(t)

\* With delay on, a thread that finds the window full sleeps inside
\* ratelimit() until an entry has aged out.
WaitsForWindow(t) ==
    /\ pc[t] = "ratelimit"
    /\ RatelimitDelay
    /\ ~LimiterHasRoom(api_key[t])

WaitsForCall(t) == pc[t] = "in_call" /\ ~Elapsed(t)

\* The clock is followed for as long as some thread waits for it.
Elapse ==
    /\ \E t \in Threads : WaitsForWindow(t) \/ WaitsForCall(t)
    /\ Advance

NextLive ==
    \/ \E t \in Threads, k \in Keys : CallOnce(t, k)
    \/ \E t \in Threads : SemAcquire(t)
    \/ \E t \in Threads : LimiterAdmit(t)
    \/ \E t \in Threads : LimiterReject(t)
    \/ \E t \in Threads : TimedReturn(t)
    \/ \E t \in Threads : TimedRaise(t)
    \/ \E t \in Threads : Finally(t)
    \/ Elapse

Scheduling ==
    /\ WF_vars(Elapse)
    /\ \A t \in Threads :
          /\ WF_vars(SemAcquire(t))
          /\ WF_vars(LimiterAdmit(t))
          /\ WF_vars(LimiterReject(t))
          /\ WF_vars(TimedReturn(t) \/ TimedRaise(t))
          /\ WF_vars(Finally(t))

SpecLive == Init /\ [][NextLive]_vars /\ Scheduling

(***************************************************************************)
(* The except clause of call_openai_rate_limited on its own: for every     *)
(* meta_info a BucketFullException can carry, the error it raises.         *)
(***************************************************************************)
InitError ==
    /\ ConfigInit
    /\ OPENAI_RPM_FAIL_FAST
    /\ GatewayInit
    /\ meta_info \in MetaInfos
    /\ raised = NoOutcome
    /\ JobsInit
    /\ MiscInit

\* except BucketFullException as e: ... raise OpenAIRateLimitError(...)
RaiseRateLimit ==
    /\ raised = NoOutcome
    /\ raised' = TranslateBucketFull(meta_info)
    /\ UNCHANGED << config, gatewayVars, meta_info, jobVars, miscVars >>

\* The next rejection, with whatever meta_info the limiter attaches to it.
NextRejection ==
    /\ raised # NoOutcome
    /\ meta_info' \in MetaInfos
    /\ raised' = NoOutcome
    /\ UNCHANGED << config, gatewayVars, jobVars, miscVars >>

NextError == RaiseRateLimit \/ NextRejection

SpecError == InitError /\ [][NextError]_vars

(***************************************************************************)
(* The same clause for every value float() can return, whether or not a    *)
(* limiter would report it: negative estimates too.                        *)
(***************************************************************************)
NegativeEstimates ==
    { -1, -(UnitsPerSecond \div 2), -UnitsPerSecond, -(UnitsPerSecond + 1),
      -(2 * UnitsPerSecond) }

AnyMetaInfos ==
    MetaInfos
    \cup { [reset_in_kind |-> "float", reset_in |-> r] :
             r \in NegativeEstimates }

InitErrorAny ==
    /\ ConfigInit
    /\ OPENAI_RPM_FAIL_FAST
    /\ GatewayInit
    /\ meta_info \in AnyMetaInfos
    /\ raised = NoOutcome
    /\ JobsInit
    /\ MiscInit

\* The next rejection, with any meta_info at all.
NextRejectionAny ==
    /\ raised # NoOutcome
    /\ meta_info' \in AnyMetaInfos
    /\ raised' = NoOutcome
    /\ UNCHANGED << config, gatewayVars, jobVars, miscVars >>

NextErrorAny == RaiseRateLimit \/ NextRejectionAny

SpecErrorAny == InitErrorAny /\ [][NextErrorAny]_vars

(***************************************************************************)
(* Job store (app/utils/job_manager.py).  A store call that finds no row   *)
(* to work on changes nothing and raises nothing to the handler.           *)
(***************************************************************************)
\* INSERT INTO jobs ... VALUES (?, ?, ?, 'queued', 0); job_id is the primary
\* key, so a second insert for the same job_id fails and is swallowed.
create_job(tbl, job_id) ==
    IF tbl[job_id].status = "absent"
    THEN [tbl EXCEPT ![job_id] = [NoRow EXCEPT !.status = "queued"]]
    ELSE tbl

\* Fault: the progress argument is stored with a terminal status too.
update_job_status_raw(tbl, job_id, status, progress, result, error_message) ==
    IF tbl[job_id].status = "absent" THEN tbl
    ELSE IF status \in {"completed", "failed"} /\ result # "none"
    THEN [tbl EXCEPT ![job_id].status = status,
                     ![job_id].progress = progress,
                     ![job_id].result = result]
    ELSE IF status \in {"completed", "failed"}
    THEN [tbl EXCEPT ![job_id].status = status,
                     ![job_id].progress = progress,
                     ![job_id].error_message = error_message]
    ELSE [tbl EXCEPT ![job_id].status = status,
                     ![job_id].progress = progress]

\* UPDATE jobs SET ... WHERE job_id = ?: a terminal status always stores
\* progress 100, with the result if one is given and the error otherwise.
update_job_status(tbl, job_id, status, progress, result, error_message) ==
    IF tbl[job_id].status = "absent" THEN tbl
    ELSE IF status \in {"completed", "failed"}
    THEN IF result # "none"
         THEN [tbl EXCEPT ![job_id].status = status,
                          ![job_id].progress = 100,
                          ![job_id].result = result]
         ELSE [tbl EXCEPT ![job_id].status = status,
                          ![job_id].progress = 100,
                          ![job_id].error_message = error_message]
    ELSE [tbl EXCEPT ![job_id].status = status,
                     ![job_id].progress = progress]

(***************************************************************************)
(* Job counters (app/utils/rate_limiter.py).                               *)
(***************************************************************************)
\* The two SELECTs of check_and_increment_rate_limits find a limit reached.
LimitReached(u, k) ==
    \/ user_jobs[u] >= MAX_JOBS_PER_USER
    \/ key_jobs[k] >= MAX_JOBS_PER_API_KEY

\* `if not ok:` -- the extraction and action handlers unpack the returned
\* pair; the classification handler tests the pair itself, which is never
\* false.
HandlerSeesRefusal(h) == h # "classification"

\* UPDATE ... SET current_jobs = MAX(0, current_jobs - 1)
Decremented(n) == IF n > 0 THEN n - 1 ELSE 0

(***************************************************************************)
(* A job from the route that accepts it to the end of its handler:         *)
(*   none -> begin -> check -> increment -> prepare                        *)
(*        -> call -> in_model [-> record] | workers                        *)
(*        -> decrement -> finished                                         *)
(***************************************************************************)
\* What call_openai_api can end with.
ApiOutcomes ==
    {ResultOutcome(r) : r \in Responses}
    \cup {ExceptionOutcome(e) : e \in ApiErrors}

\* response["incomplete_details"]: missing, None or without a 'reason'
\* ("none"), or naming the vendor's reason.
IncompleteDetails == {"none", "max_output_tokens"}

\* What a handler holds once call_openai_api is over: the outcome, and the
\* incomplete_details of a response that is not completed.
Holds(o, d) ==
    [outcome |-> o,
     reason |-> IF o.kind = "result" /\ o.value # "completed"
                THEN d ELSE "none"]

\* str(e) of the RuntimeError that call_openai_api raises on a non-200
\* answer: "OpenAI API error <status>: <text>".
ErrorText(e) == "OpenAI API error"

\* (response.get("incomplete_details") or {}).get("reason", "unknown")
Reason(d) == IF d = "none" THEN "unknown" ELSE d

\* Fault: the vendor's reason is left out of the message.
FailedMessageNoReason(d) == "OpenAI API failed"

\* raise RuntimeError(f"OpenAI API failed: {reason}"), whose str() the
\* except clause stores.
FailedMessage(d) == "OpenAI API failed: " \o Reason(d)

\* Whether the try block of a handler reaches its last statement with this
\* response: it is completed and its text parses as JSON.
Succeeds(r, parsed) ==
    r.outcome.kind = "result" /\ r.outcome.value = "completed" /\ parsed

\* str(e) in `except Exception as e` for a try block that did not succeed:
\* the exception of call_openai_api, the RuntimeError raised for a response
\* that is not completed, or a KeyError / ValueError of the parsing.
HandlerError(r) ==
    IF r.outcome.kind = "exception" THEN ErrorText(r.outcome.value)
    ELSE IF r.outcome.value # "completed" THEN FailedMessage(r.reason)
    ELSE "exception"

\* POST /extract/single, /extract/batch, /classify, /ai/action: the route
\* answers 202 with a fresh job_id and starts the worker.  The two
\* extraction routes insert the job row themselves.
Accept(j, h, u, k, n) ==
    /\ hpc[j] = "none"
    /\ (h # "batch") => n = 1
    /\ request' = [request EXCEPT ![j] =
                      [handler |-> h, user_id |-> u,
                       openai_api_key |-> k, prompts |-> n]]
    /\ jobs' = IF h \in {"single", "batch"} THEN create_job(jobs, j)
               ELSE jobs
    /\ hpc' = [hpc EXCEPT ![j] = "begin"]
    /\ UNCHANGED << config, gatewayVars, errorVars, miscVars, response,
                    user_jobs, key_jobs, seen, ok, batch >>

\* The extraction and action routes start a thread per job.  The
\* classification route hands process_classification, a coroutine that
\* never awaits, to the event loop: it runs from its first statement to its
\* last before another classification job starts.
EventLoopFree(j) ==
    request[j].handler = "classification" =>
        \A i \in JobIds \ {j} :
            request[i].handler = "classification" =>
                hpc[i] \in {"none", "begin", "finished"}

\* Fault: every handler inserts the job row.
HandlerCreatesJobAlways(h) == TRUE

\* Whether the handler opens with create_job(job_id, ...): the extraction
\* and classification handlers do, process_action does not.
HandlerCreatesJob(h) == h # "action"

\* The handler starts: create_job (not in process_action), then
\* update_job_status(job_id, "processing", 10).
Begin(j) ==
    /\ hpc[j] = "begin"
    /\ EventLoopFree(j)
    /\ jobs' = update_job_status(
                   IF HandlerCreatesJob(request[j].handler)
                   THEN create_job(jobs, j) ELSE jobs,
                   j, "processing", 10, "none", "none")
    /\ hpc' = [hpc EXCEPT ![j] = "check"]
    /\ UNCHANGED << config, gatewayVars, errorVars, miscVars, response,
                    user_jobs, key_jobs, request, seen, ok, batch >>

\* `if not ok: update_job_status(job_id, "failed", error_message=f"Rate
\* limit exceeded: {reason}"); return` in the handlers that see the refusal;
\* the classification handler goes on into its try block.
Refused(j) ==
    /\ ok' = [ok EXCEPT ![j] = "False"]
    /\ IF HandlerSeesRefusal(request[j].handler)
       THEN /\ jobs' = update_job_status(jobs, j, "failed", 0, "none",
                                         "Rate limit exceeded")
            /\ hpc' = [hpc EXCEPT ![j] = "finished"]
       ELSE /\ hpc' = [hpc EXCEPT ![j] = "prepare"]
            /\ UNCHANGED jobs

\* check_and_increment_rate_limits, the reads: the two SELECTs, each a
\* transaction of its own.  A limit that is reached, or an exception of the
\* database, ends the call with (False, reason).
CheckLimits(j) ==
    /\ hpc[j] = "check"
    /\ \E db_ok \in BOOLEAN :
          LET u == request[j].user_id
              k == request[j].openai_api_key
          IN  IF ~db_ok \/ LimitReached(u, k)
              THEN /\ Refused(j)
                   /\ UNCHANGED seen
              ELSE /\ seen' = [seen EXCEPT ![j] = [user |-> user_jobs[u],
                                                   key |-> key_jobs[k]]]
                   /\ hpc' = [hpc EXCEPT ![j] = "increment"]
                   /\ UNCHANGED << jobs, ok >>
    /\ UNCHANGED << config, gatewayVars, errorVars, miscVars, response,
                    user_jobs, key_jobs, request, batch >>

\* check_and_increment_rate_limits, the writes: INSERT OR REPLACE of the
\* counts read plus one, both in the transaction that get_db commits; the
\* call returns (True, None).  An exception of a statement or of the commit
\* rolls both back and the call returns (False, reason).
IncrementLimits(j) ==
    /\ hpc[j] = "increment"
    /\ \E db_ok \in BOOLEAN :
          IF db_ok
          THEN /\ user_jobs' = [user_jobs EXCEPT
                                   ![request[j].user_id] = seen[j].user + 1]
               /\ key_jobs' = [key_jobs EXCEPT
                                  ![request[j].openai_api_key] =
                                      seen[j].key + 1]
               /\ ok' = [ok EXCEPT ![j] = "True"]
               /\ hpc' = [hpc EXCEPT ![j] = "prepare"]
               /\ UNCHANGED jobs
          ELSE /\ Refused(j)
               /\ UNCHANGED << user_jobs, key_jobs >>
    /\ UNCHANGED << config, gatewayVars, errorVars, miscVars, response,
                    request, seen, batch >>

\* Text extraction and prompt building; progress 40.  A document without
\* extractable text raises, and the except clause marks the job failed.
\* process_action first starts its DebugRequestRecorder, before its try
\* statement: an exception of the recorder (the log directory cannot be
\* made or written) ends the worker there.
Prepare(j) ==
    /\ hpc[j] = "prepare"
    /\ \E readable \in BOOLEAN, recording \in BOOLEAN :
          IF request[j].handler = "action" /\ ~recording
          THEN /\ ~readable
               /\ hpc' = [hpc EXCEPT ![j] = "finished"]
               /\ UNCHANGED << jobs, batch >>
          ELSE IF ~recording THEN FALSE
          ELSE IF readable
          THEN /\ jobs' = update_job_status(jobs, j, "processing", 40,
                              "none", "none")
               /\ hpc' = [hpc EXCEPT ![j] =
                             IF request[j].handler = "batch"
                             THEN "workers" ELSE "call"]
               /\ batch' = [batch EXCEPT ![j] =
                               [NoBatch EXCEPT
                                   !.pending =
                                       IF request[j].handler = "batch"
                                       THEN request[j].prompts ELSE 0]]
          ELSE /\ jobs' = update_job_status(jobs, j, "failed", 0,
                              "none", "exception")
               /\ hpc' = [hpc EXCEPT ![j] = "decrement"]
               /\ UNCHANGED batch
    /\ UNCHANGED << config, gatewayVars, errorVars, miscVars, response,
                    user_jobs, key_jobs, request, seen, ok >>

\* response = call_openai_api(request_data.openai_api_key, ...): the
\* handler invokes the function it imported from app.core.openai_client.
\* No semaphore is looked up and the limiter is not consulted.
ModelCall(j) ==
    /\ hpc[j] = "call"
    /\ hpc' = [hpc EXCEPT ![j] = "in_model"]
    /\ UNCHANGED << config, gatewayVars, errorVars, miscVars, response, jobs,
                    user_jobs, key_jobs, request, seen, ok, batch >>

\* The call ends.  A completed response whose text parses is stored as the
\* result; anything else is raised and the job is marked failed.
ModelReturn(j) ==
    /\ hpc[j] = "in_model"
    /\ \E o \in ApiOutcomes, d \in IncompleteDetails, parsed \in BOOLEAN :
          /\ Holds(o, d).reason = d
          /\ response' = [response EXCEPT ![j] = Holds(o, d)]
          /\ jobs' = IF Succeeds(Holds(o, d), parsed)
                     THEN update_job_status(jobs, j, "completed", 100,
                                            "json", "none")
                     ELSE update_job_status(jobs, j, "failed", 0, "none",
                                            HandlerError(Holds(o, d)))
          /\ hpc' = [hpc EXCEPT ![j] =
                        IF request[j].handler = "action"
                           /\ Succeeds(Holds(o, d), parsed)
                        THEN "record" ELSE "decrement"]
    /\ UNCHANGED << config, gatewayVars, errorVars, miscVars, user_jobs,
                    key_jobs, request, seen, ok, batch >>

\* process_action, after update_job_status(job_id, "completed", ...):
\* rec.save_response(200, ...) is still inside the try block, so an
\* exception of the recorder reaches `except Exception as e`, which calls
\* update_job_status(job_id, "failed", error_message=str(e)).
SaveResponse(j) ==
    /\ hpc[j] = "record"
    /\ \E recorded \in BOOLEAN :
          jobs' = IF recorded THEN jobs
                  ELSE update_job_status(jobs, j, "failed", 0, "none",
                                         "exception")
    /\ hpc' = [hpc EXCEPT ![j] = "decrement"]
    /\ UNCHANGED << config, gatewayVars, errorVars, miscVars, response,
                    user_jobs, key_jobs, request, seen, ok, batch >>

\* execute_parallel_extraction: a pool worker runs exec_one and calls
\* openai_call_func, which the batch handler set to call_openai_api.
WorkerCall(j) ==
    /\ hpc[j] = "workers"
    /\ batch[j].pending > 0
    /\ batch' = [batch EXCEPT ![j].pending = @ - 1, ![j].calling = @ + 1]
    /\ UNCHANGED << config, gatewayVars, errorVars, miscVars, response, jobs,
                    user_jobs, key_jobs, hpc, request, seen, ok >>

\* exec_one ends: a success, or a failure caught inside exec_one.  (The
\* response kept for the job is the one its latest worker got.)
WorkerReturn(j) ==
    /\ hpc[j] = "workers"
    /\ batch[j].calling > 0
    /\ \E o \in ApiOutcomes, d \in IncompleteDetails, parsed \in BOOLEAN :
          /\ Holds(o, d).reason = d
          /\ response' = [response EXCEPT ![j] = Holds(o, d)]
          /\ batch' = [batch EXCEPT
                          ![j].calling = @ - 1,
                          ![j].failed =
                              IF Succeeds(Holds(o, d), parsed)
                              THEN @ ELSE @ + 1,
                          ![j].raised = @ \/ o.kind = "exception"]
    /\ UNCHANGED << config, gatewayVars, errorVars, miscVars, jobs, user_jobs,
                    key_jobs, hpc, request, seen, ok >>

\* Every worker is done: the merged result is stored, failures listed
\* under _execution_errors, and the job is completed.
BatchDone(j) ==
    /\ hpc[j] = "workers"
    /\ batch[j].pending = 0 /\ batch[j].calling = 0
    /\ jobs' = update_job_status(jobs, j, "completed", 100, "json", "none")
    /\ hpc' = [hpc EXCEPT ![j] = "decrement"]
    /\ UNCHANGED << config, gatewayVars, errorVars, miscVars, response,
                    user_jobs, key_jobs, request, seen, ok, batch >>

\* finally: decrement_rate_limits(user_id, openai_api_key); the handler
\* returns and its locals are gone.
DecrementLimits(j) ==
    /\ hpc[j] = "decrement"
    /\ user_jobs' = [user_jobs EXCEPT
                        ![request[j].user_id] = Decremented(@)]
    /\ key_jobs' = [key_jobs EXCEPT
                       ![request[j].openai_api_key] = Decremented(@)]
    /\ hpc' = [hpc EXCEPT ![j] = "finished"]
    /\ response' = [response EXCEPT ![j] = NoResponse]
    /\ batch' = [batch EXCEPT ![j] = NoBatch]
    /\ UNCHANGED << config, gatewayVars, errorVars, miscVars, jobs, request,
                    seen, ok >>

NextJobs ==
    \/ \E j \in JobIds, h \in Handlers, u \in Users, k \in Keys,
          n \in 1..MaxPrompts : Accept(j, h, u, k, n)
    \/ \E j \in JobIds : Begin(j)
    \/ \E j \in JobIds : CheckLimits(j)
    \/ \E j \in JobIds : IncrementLimits(j)
    \/ \E j \in JobIds : Prepare(j)
    \/ \E j \in JobIds : ModelCall(j)
    \/ \E j \in JobIds : ModelReturn(j)
    \/ \E j \in JobIds : SaveResponse(j)
    \/ \E j \in JobIds : WorkerCall(j)
    \/ \E j \in JobIds : WorkerReturn(j)
    \/ \E j \in JobIds : BatchDone(j)
    \/ \E j \in JobIds : DecrementLimits(j)

\* The handlers read none of the gateway's settings; the gate is configured
\* on and in BLOCK mode, as deployed.
InitJobs ==
    /\ Init
    /\ OPENAI_RPM_PER_KEY = MaxRpm
    /\ ~OPENAI_RPM_FAIL_FAST
    /\ OPENAI_MAX_CONCURRENCY_PER_KEY = MaxConcurrency

SpecJobs == InitJobs /\ [][NextJobs]_vars

(***************************************************************************)
(* _get_sem_for(api_key) statement by statement, for what its callers can  *)
(* see of each other:                                                      *)
(*   out -> lock -> get -> create | return -> out                          *)
(***************************************************************************)
\* The variables of a call that _get_sem_for does not touch.
callVars == << bucket, now, pc, api_key, sem, admitted, apiCalls, outcome,
               lowLevel, started, admissions, epochCalls >>

\* max_conc = OPENAI_MAX_CONCURRENCY_PER_KEY; `if max_conc <= 0: return None`
EnterGetSem(t, k) ==
    /\ gpc[t] = "out"
    /\ gkey' = [gkey EXCEPT ![t] = k]
    /\ gsem' = [gsem EXCEPT ![t] = NoSem]
    /\ gret' = [gret EXCEPT ![t] = NoSem]
    /\ gpc' = [gpc EXCEPT ![t] = IF GateEnabled THEN "lock" ELSE "out"]
    /\ UNCHANGED << config, callVars, errorVars, miscVars, jobVars, sems,
                    sem_lock, semOf, made >>

\* Fault: the dict is read and written without the lock.
LockFreeAlways == TRUE

LockFree == sem_lock = 0

\* `with _sem_lock:` -- waits while another thread is inside.
LockSems(t) ==
    /\ gpc[t] = "lock"
    /\ LockFree
    /\ sem_lock' = t
    /\ gpc' = [gpc EXCEPT ![t] = "get"]
    /\ UNCHANGED << config, callVars, errorVars, miscVars, jobVars, sems,
                    semOf, made, gkey, gsem, gret >>

\* sem = _sems.get(api_key); `if sem is None:`
GetSem(t) ==
    /\ gpc[t] = "get"
    /\ gsem' = [gsem EXCEPT ![t] = semOf[gkey[t]]]
    /\ gpc' = [gpc EXCEPT ![t] = IF semOf[gkey[t]] = NoSem
                                  THEN "create" ELSE "return"]
    /\ UNCHANGED << config, callVars, errorVars, miscVars, jobVars, sems,
                    sem_lock, semOf, made, gkey, gret >>

\* sem = Semaphore(max_conc); _sems[api_key] = sem
CreateSem(t) ==
    /\ gpc[t] = "create"
    /\ LET k == gkey[t]
           new == << k, made[k] + 1 >>
       IN  /\ made' = [made EXCEPT ![k] = @ + 1]
           /\ gsem' = [gsem EXCEPT ![t] = new]
           /\ semOf' = [semOf EXCEPT ![k] = new]
           /\ sems' = (k :> NewSemaphore) @@ sems
    /\ gpc' = [gpc EXCEPT ![t] = "return"]
    /\ UNCHANGED << config, callVars, errorVars, miscVars, jobVars, sem_lock,
                    gkey, gret >>

\* `return sem`, which leaves the with block and frees the lock.
ReturnSem(t) ==
    /\ gpc[t] = "return"
    /\ sem_lock' = 0
    /\ gret' = [gret EXCEPT ![t] = gsem[t]]
    /\ gpc' = [gpc EXCEPT ![t] = "out"]
    /\ UNCHANGED << config, callVars, errorVars, miscVars, jobVars, sems,
                    semOf, made, gkey, gsem >>

NextSems ==
    \/ \E t \in Threads, k \in Keys : EnterGetSem(t, k)
    \/ \E t \in Threads : LockSems(t)
    \/ \E t \in Threads : GetSem(t)
    \/ \E t \in Threads : CreateSem(t)
    \/ \E t \in Threads : ReturnSem(t)

SpecSems == Init /\ [][NextSems]_vars

(***************************************************************************)
(* set_test_impl(fake_fn) and the places that call the gateway.  A name    *)
(* imported with `from ... import` is bound, when the import statement     *)
(* runs, to the object the module global names at that moment; an          *)
(* attribute reference looks the global up at each call.                   *)
(***************************************************************************)
\* The test doubles handed to set_test_impl.
Fakes == {"fake_a", "fake_b"}

\* from app.core.ai_gateway import call_openai_rate_limited
ImportFrom(s) ==
    /\ s = "from_import"
    /\ site_fn[s] = "unbound"
    /\ site_fn' = [site_fn EXCEPT ![s] = gateway_fn]
    /\ UNCHANGED << config, gatewayVars, errorVars, moreVars, jobVars,
                    storeVars, cleanupVars, gateway_fn, ran >>

\* global call_openai_rate_limited; call_openai_rate_limited = fake_fn
set_test_impl(fake_fn) ==
    /\ gateway_fn' = fake_fn
    /\ UNCHANGED << config, gatewayVars, errorVars, moreVars, jobVars,
                    storeVars, cleanupVars, site_fn, ran >>

\* What the call expression of site s evaluates to.
Callee(s) == IF s = "from_import" THEN site_fn[s] ELSE gateway_fn

\* The site calls the gateway: call_openai_rate_limited(...) by its own
\* name, or ai_gateway.call_openai_rate_limited(...).
CallGateway(s) ==
    /\ Callee(s) # "unbound"
    /\ ran' = [ran EXCEPT ![s] = [impl |-> Callee(s), global |-> gateway_fn]]
    /\ UNCHANGED << config, gatewayVars, errorVars, moreVars, jobVars,
                    storeVars, cleanupVars, gateway_fn, site_fn >>

NextSwap ==
    \/ \E s \in Sites : ImportFrom(s)
    \/ \E f \in Fakes : set_test_impl(f)
    \/ \E s \in Sites : CallGateway(s)

SpecSwap == Init /\ [][NextSwap]_vars

(***************************************************************************)
(* create_job and update_job_status as their callers see them, for every   *)
(* call and every way the database can fail (app/utils/job_manager.py,     *)
(* get_db in app/database.py).                                             *)
(***************************************************************************)
\* The calls: create_job(job_id, ...) and
\* update_job_status(job_id, status, progress, result, error_message), each
\* against a database that works or one that raises (locked, unreachable).
StoreCalls ==
    { [NoStoreCall EXCEPT !.fn = "create_job", !.job_id = j,
                          !.db_ok = db_ok] :
        j \in JobIds, db_ok \in BOOLEAN }
    \cup
    { [fn |-> "update_job_status", job_id |-> j, status |-> st,
       progress |-> 10, result |-> r, error_message |-> m, db_ok |-> db_ok] :
        j \in JobIds, st \in {"processing", "completed", "failed"},
        r \in {"none", "json", "json_401"}, m \in {"none", "exception"},
        db_ok \in BOOLEAN }

\* The exception raised inside `with get_db() as conn:` -- by connecting,
\* by the statement or by the commit.  get_db rolls back and raises it again.
StoreRaises(c, tbl) ==
    IF ~c.db_ok THEN "OperationalError"
    ELSE IF c.fn = "create_job" /\ tbl[c.job_id].status # "absent"
    THEN "IntegrityError"
    ELSE "none"

\* Fault: only a locked or unreachable database is expected.
CaughtOperationalOnly(e) == e = "OperationalError"

\* `except Exception:`
Caught(e) == TRUE

\* The table after the call: a failed call is rolled back.
StoreAfter(c, tbl) ==
    IF StoreRaises(c, tbl) # "none" THEN tbl
    ELSE IF c.fn = "create_job" THEN create_job(tbl, c.job_id)
    ELSE update_job_status(tbl, c.job_id, c.status, c.progress, c.result,
                           c.error_message)

\* What the caller gets: True or False from create_job, None from
\* update_job_status, or the exception if the except clause let it pass.
StoreReturns(c, tbl) ==
    IF StoreRaises(c, tbl) # "none" /\ ~Caught(StoreRaises(c, tbl))
    THEN "raised"
    ELSE IF c.fn = "update_job_status" THEN "None"
    ELSE IF StoreRaises(c, tbl) = "none" THEN "True"
    ELSE "False"

InitStore == InitJobs

\* A caller is about to make a call.
StoreBegin ==
    /\ store_ret # "pending" \/ store_call = NoStoreCall
    /\ store_call' \in StoreCalls
    /\ store_ret' = "pending"
    /\ UNCHANGED << config, gatewayVars, errorVars, moreVars, jobVars,
                    swapVars, cleanupVars >>

\* The call runs to its end.
StoreCall ==
    /\ store_call # NoStoreCall
    /\ store_ret = "pending"
    /\ jobs' = StoreAfter(store_call, jobs)
    /\ store_ret' = StoreReturns(store_call, jobs)
    /\ UNCHANGED << config, gatewayVars, errorVars, moreVars, swapVars,
                    cleanupVars, user_jobs, key_jobs, hpc, request, seen, ok,
                    batch, response, store_call >>

NextStore == StoreBegin \/ StoreCall

SpecStore == InitStore /\ [][NextStore]_vars

(***************************************************************************)
(* cleanup_old_jobs (app/database.py).  The jobs table is kept as two      *)
(* counts: the rows created before the cutoff and the others.  Each        *)
(* attempt opens its own connection; what an attempt did not commit is     *)
(* gone when the connection is closed.                                     *)
(***************************************************************************)
\* An attempt ends in one of these ways:
\*   "done"    every statement worked;
\*   "locked", "busy"   sqlite3.OperationalError whose message holds that
\*             word, raised before the DELETE is committed;
\*   "other"   any other exception raised before the commit;
\*   "after"   an exception of the checkpoint pragma, after the commit.  (A
\*             checkpoint that finds the database busy says so in the row
\*             it returns and raises nothing.)
AttemptOutcomes == {"done", "locked", "busy", "other", "after"}

\* SELECT job_id FROM jobs WHERE created_at < ? LIMIT ?  -- how many rows.
Selected(n) == IF n < batch_size THEN n ELSE batch_size

\* Fault: one retry too many.
RetriesLeftOneMore(a) == a < attempts

\* `attempt < attempts - 1`
RetriesLeft(a) == a < attempts - 1

\* `"locked" in msg or "busy" in msg`, for an OperationalError.
Retryable(e) == e \in {"locked", "busy"}

\* How many old rows the table may hold at first.
OldCounts ==
    {0, 1, batch_size - 1}
    \cup { b * batch_size : b \in 1..MaxBatches }
    \cup { b * batch_size + 1 : b \in 1..MaxBatches }

InitCleanup ==
    /\ ConfigInit
    /\ OPENAI_RPM_PER_KEY = MaxRpm
    /\ OPENAI_MAX_CONCURRENCY_PER_KEY = MaxConcurrency
    /\ ~OPENAI_RPM_FAIL_FAST
    /\ GatewayInit /\ ErrorInit /\ JobsInit /\ SwapInit /\ StoreInit
    /\ ResultInit /\ PoolInit
    /\ CleanupIdle
    /\ old_rows \in OldCounts
    /\ new_rows \in 0..1

\* The scheduler calls cleanup_old_jobs(): cutoff, attempts, batch_size are
\* set and the loop is entered with attempt = 0.
StartCleanup ==
    /\ cpc \in {"idle", "returned", "raised"}
    /\ cpc' = "attempt"
    /\ attempt' = 0
    /\ cleanup_ret' = 0
    /\ cleanup_err' = "none"
    /\ slept' = 0
    /\ removed' = 0
    /\ UNCHANGED << config, gatewayVars, errorVars, moreVars, jobVars,
                    swapVars, storeVars, old_rows, new_rows >>

\* One pass of the loop body.
CleanupAttempt ==
    /\ cpc = "attempt"
    /\ \E o \in AttemptOutcomes :
          IF o \in {"done", "after"}
          THEN /\ old_rows' = old_rows - Selected(old_rows)
               /\ removed' = removed + Selected(old_rows)
               /\ IF o = "done"
                  THEN /\ cpc' = "returned"
                       /\ cleanup_ret' = Selected(old_rows)
                       /\ UNCHANGED cleanup_err
                  ELSE /\ cpc' = "raised"
                       /\ cleanup_err' = "other"
                       /\ UNCHANGED cleanup_ret
               /\ UNCHANGED << attempt, slept >>
          ELSE /\ cleanup_err' = o
               /\ IF Retryable(o) /\ RetriesLeft(attempt)
                  THEN /\ slept' = slept + RetrySleepSecs
                       /\ attempt' = attempt + 1
                       /\ UNCHANGED cpc
                  ELSE /\ cpc' = "raised"
                       /\ UNCHANGED << attempt, slept >>
               /\ UNCHANGED << old_rows, removed, cleanup_ret >>
    /\ UNCHANGED << config, gatewayVars, errorVars, moreVars, jobVars,
                    swapVars, storeVars, new_rows >>

NextCleanup == StartCleanup \/ CleanupAttempt

SpecCleanup == InitCleanup /\ [][NextCleanup]_vars

(***************************************************************************)
(* GET /jobs/{job_id}/result (app/api/routes/jobs.py), asked at any moment *)
(* of the life of a job row.  A stored result is one of                    *)
(*   "none"      NULL: no result was stored;                               *)
(*   "json"      the JSON text of a result dict;                           *)
(*   "json_401"  the same, with an '_execution_errors' entry whose error   *)
(*               mentions 'error 401' or 'invalid_api_key'.                *)
(***************************************************************************)
\* Fault: only a queued job counts as not yet completed.
TerminalOrProcessing(status) == status # "queued"

\* row["status"] in ["completed", "failed"]
Terminal(status) == status \in {"completed", "failed"}

\* json.loads(row["result"]) if row["result"] else None
LoadResult(text) == IF text = "none" THEN "None" ELSE text

\* has_openai_auth_error(result)
has_openai_auth_error(result) == result = "json_401"

\* JobResultResponse(status, result, error_message, ...) of a row
Payload(row) ==
    [status |-> row.status, result |-> LoadResult(row.result),
     error_message |-> row.error_message]

\* get_job_result(job_id): 404 without a row, 400 while the row is not
\* terminal, else the payload, with 401 when the result holds an
\* authentication error of the vendor and 200 otherwise.
get_job_result(tbl, job_id) ==
    IF tbl[job_id].status = "absent"
    THEN [job_id |-> job_id, status_code |-> HTTP_404_NOT_FOUND,
          payload |-> NoPayload]
    ELSE IF ~Terminal(tbl[job_id].status)
    THEN [job_id |-> job_id, status_code |-> HTTP_400_BAD_REQUEST,
          payload |-> NoPayload]
    ELSE [job_id |-> job_id,
          status_code |->
              IF has_openai_auth_error(LoadResult(tbl[job_id].result))
              THEN HTTP_401_UNAUTHORIZED ELSE HTTP_OK,
          payload |-> Payload(tbl[job_id])]

\* A client asks for the result of job j.
GetJobResult(j) ==
    /\ answer' = get_job_result(jobs, j)
    /\ UNCHANGED << config, gatewayVars, errorVars, jobVars, swapVars,
                    storeVars, cleanupVars, poolVars >>

\* A caller makes a job-store call, which runs to its end.
WriteRow ==
    /\ \E c \in StoreCalls : jobs' = StoreAfter(c, jobs)
    /\ UNCHANGED << config, gatewayVars, errorVars, miscVars, user_jobs,
                    key_jobs, hpc, request, seen, ok, batch, response >>

\* The row of a job is written by create_job and update_job_status, in any
\* order a caller could make the calls; the result is asked for in between.
NextResult ==
    \/ WriteRow
    \/ \E j \in JobIds : GetJobResult(j)

SpecResult == InitStore /\ [][NextResult]_vars

(***************************************************************************)
(* execute_parallel_extraction (app/core/parallel_executor.py): one pool   *)
(* worker per prompt item, collected in the order they finish.  Of a       *)
(* parsed dict only the keys are kept, not the values.                     *)
(***************************************************************************)
\* prompt_type of an item: any non-empty string the client sends; the batch
\* route does not ask the items of one request to differ in it.
PromptTypes == {"skills", "projects"}

\* Keys of a parsed dict: one of DESIRED_KEY_ORDER and one that is not.
DataKeys == {"contact", "summary"}

\* str(e) of what exec_one catches.
ExecErrors == {"API call failed: unknown", "OpenAI API error"}

\* What exec_one returns with its item: {"success": True, "data": data},
\* where json.loads gave a dict (of these keys) or another JSON value (a
\* list, a string, a number), or {"success": False, "error": str(e)}.
ExecOutcomes ==
    { [success |-> TRUE, dict |-> TRUE, data |-> d, error |-> "none"] :
        d \in SUBSET DataKeys }
    \cup { [success |-> TRUE, dict |-> FALSE, data |-> {}, error |-> "none"] }
    \cup { [success |-> FALSE, dict |-> FALSE, data |-> {}, error |-> e] :
             e \in ExecErrors }

\* results[item.get("prompt_type", ...)] = res: a new key goes to the end of
\* the dict, a key that is there keeps its place and gets the new value.
PutResult(rs, ptype, res) ==
    IF \E n \in 1..Len(rs) : rs[n].prompt_type = ptype
    THEN [n \in 1..Len(rs) |->
             IF rs[n].prompt_type = ptype
             THEN [prompt_type |-> ptype, res |-> res] ELSE rs[n]]
    ELSE Append(rs, [prompt_type |-> ptype, res |-> res])

\* res["data"].items() in the second loop, for a success whose data is not
\* a dict: AttributeError, which nothing in the function catches.
MergeRaises(rs) ==
    \E n \in 1..Len(rs) : rs[n].res.success /\ ~rs[n].res.dict

\* The keys of final_result after both loops: each key of each successful
\* dict in results.
MergedKeys(rs) ==
    UNION { rs[n].res.data : n \in { m \in 1..Len(rs) : rs[m].res.success } }

\* failed: {"prompt_type": ptype, "error": res.get("error", "unknown")} for
\* each entry of results that is not a success, in the dict's order.
FailedEntries(rs) ==
    LET f == SelectSeq(rs, LAMBDA r : ~r.res.success)
    IN  [n \in 1..Len(f) |->
            [prompt_type |-> f[n].prompt_type, error |-> f[n].res.error]]

\* pool.submit(exec_one, it, i) for every item of a batch of K prompts.
Submit(items) ==
    /\ ppc = "idle"
    /\ prompt_items' = items
    /\ futs' = [i \in 1..Len(items) |-> "running"]
    /\ exec_ret' = [i \in 1..Len(items) |->
                       [success |-> FALSE, dict |-> FALSE, data |-> {},
                        error |-> "none"]]
    /\ results' = << >>
    /\ ppc' = "collect"
    /\ UNCHANGED << config, gatewayVars, errorVars, jobVars, swapVars,
                    storeVars, cleanupVars, resultVars, final_result >>

\* exec_one of item i returns and as_completed hands its future to the
\* loop, which stores the result under the item's prompt_type.
Complete(i) ==
    /\ ppc = "collect"
    /\ i \in DOMAIN futs
    /\ futs[i] = "running"
    /\ \E res \in ExecOutcomes :
          /\ exec_ret' = [exec_ret EXCEPT ![i] = res]
          /\ results' = PutResult(results, prompt_items[i], res)
    /\ futs' = [futs EXCEPT ![i] = "done"]
    /\ UNCHANGED << config, gatewayVars, errorVars, jobVars, swapVars,
                    storeVars, cleanupVars, resultVars, ppc, prompt_items,
                    final_result >>

\* Every future is done: the two loops over results build final_result,
\* which is returned, unless the second loop raises.
Merge ==
    /\ ppc = "collect"
    /\ \A i \in DOMAIN futs : futs[i] = "done"
    /\ IF MergeRaises(results)
       THEN /\ ppc' = "raised"
            /\ UNCHANGED final_result
       ELSE /\ ppc' = "returned"
            /\ final_result' =
                   [keys |-> MergedKeys(results),
                    execution_errors |-> FailedEntries(results)]
    /\ UNCHANGED << config, gatewayVars, errorVars, jobVars, swapVars,
                    storeVars, cleanupVars, resultVars, prompt_items, futs,
                    exec_ret, results >>

\* The batches a request can hold: 1..MaxPrompts items.
Batch(n) == [1..n -> PromptTypes]

NextPool ==
    \/ \E n \in 1..MaxPrompts : \E items \in Batch(n) : Submit(items)
    \/ \E i \in 1..MaxPrompts : Complete(i)
    \/ Merge

SpecPool == InitJobs /\ [][NextPool]_vars

(***************************************************************************)
(*                              PROPERTIES                                 *)
(***************************************************************************)
Quiescent == \A t \in Threads : pc[t] \in {"idle", "done"}

\* Threads of key k between `sem.acquire()` returning and `sem.release()`.
Holders(k) ==
    {t \in Threads : api_key[t] = k /\ sem[t]
                     /\ pc[t] \in {"ratelimit", "in_call", "finally"}}

\* Threads of key k inside call_openai_api.
InFlight(k) == {t \in Threads : api_key[t] = k /\ pc[t] = "in_call"}

\* Thread t leaves the limiter in this step, admitted or rejected.
ConsultStep(t) == pc[t] = "ratelimit" /\ pc'[t] # "ratelimit"

Rejected(t) ==
    /\ outcome[t].kind = "rate_limit"
    /\ outcome[t].status_code = HTTP_TOO_MANY_REQUESTS

\* Model calls that jobs have in flight for key k: the single call of an
\* extraction, classification or action job, and the calls of a batch's
\* workers.
CallsInFlight(j) ==
    IF hpc[j] = "in_model" THEN 1
    ELSE IF hpc[j] = "workers" THEN batch[j].calling
    ELSE 0

ModelCallsInFlight(k) ==
    Cardinality({ c \in JobIds \X (1..MaxPrompts) :
                     /\ request[c[1]].openai_api_key = k
                     /\ c[2] <= CallsInFlight(c[1]) })

\* C1: every invocation of call_openai_api made while processing a job goes
\* through the gateway: each model call in flight for a credential holds
\* one of the credential's concurrency slots (when the gate is enabled) and
\* follows an admission by the RPM limiter.  No time passes in SpecJobs,
\* so an admission made for a call is still in the limiter's window.
C1_ModelCallsPassGate ==
    \A k \in Keys :
        ModelCallsInFlight(k) > 0 =>
            /\ GateEnabled =>
                  /\ k \in DOMAIN sems
                  /\ ModelCallsInFlight(k) <= NewSemaphore - sems[k]
            /\ ModelCallsInFlight(k) <= Len(bucket[k])

\* C2: with max concurrency C > 0, the callers of one credential that are
\* between gate entry and gate release never number more than C, and so do
\* the low-level calls in flight for that credential.
C2_ConcurrencyCap ==
    GateEnabled =>
        \A k \in Keys :
            /\ Cardinality(Holders(k)) <= OPENAI_MAX_CONCURRENCY_PER_KEY
            /\ Cardinality(InFlight(k)) <= OPENAI_MAX_CONCURRENCY_PER_KEY

\* The cap is reached: every permit of a key is taken by calls in flight
\* and one more caller of that key is waiting at the gate.
C2_Witness ==
    \E k \in Keys : \E t \in Threads :
        /\ GateEnabled
        /\ Cardinality(InFlight(k)) = OPENAI_MAX_CONCURRENCY_PER_KEY
        /\ pc[t] = "acquire" /\ api_key[t] = k
        /\ sems[k] = 0

\* C3: once every call has finished -- returned, raised from the low-level
\* caller, or rejected by the limiter -- each semaphore has exactly its
\* original C permits again.
C3_SlotsRestored ==
    Quiescent =>
        \A k \in DOMAIN sems : sems[k] = OPENAI_MAX_CONCURRENCY_PER_KEY

\* All calls are over, one of them raised from the low-level caller and
\* another was rejected, and the semaphore they used is full again.
C3_Witness ==
    /\ Quiescent /\ GateEnabled
    /\ \E t1, t2 \in Threads :
          /\ outcome[t1].kind = "exception"
          /\ outcome[t2].kind = "rate_limit"
    /\ \E k \in DOMAIN sems : sems[k] = OPENAI_MAX_CONCURRENCY_PER_KEY

\* C4: in FAIL_FAST mode, every interval of one minute that starts at an
\* admission of a credential holds at most OPENAI_RPM_PER_KEY admissions of
\* that credential.  (admissions[k] keeps every admission younger than a
\* minute, so the intervals that end now are all there; an interval that
\* ended earlier was checked in the state where it ended.)
C4_SlidingWindow ==
    OPENAI_RPM_FAIL_FAST =>
        \A k \in Keys : \A i \in 1..Len(admissions[k]) :
            Cardinality({j \in 1..Len(admissions[k]) :
                            /\ admissions[k][i] <= admissions[k][j]
                            /\ admissions[k][j] < admissions[k][i] + MINUTE})
                <= OPENAI_RPM_PER_KEY

\* The window has slid: it is full of admissions made a minute or more
\* after the start, and a further call has just been rejected.
C4_Witness ==
    \E k \in Keys : \E t \in Threads :
        /\ OPENAI_RPM_FAIL_FAST
        /\ now >= MINUTE
        /\ Len(admissions[k]) = OPENAI_RPM_PER_KEY
        /\ api_key[t] = k /\ pc[t] = "finally" /\ Rejected(t)

\* C5: the admit/reject decision is atomic per credential: a step admits at
\* most one call of a credential, and only if fewer than OPENAI_RPM_PER_KEY
\* admissions of the trailing minute were counted before it; two threads
\* never both take the last free slot.
C5_AtomicAdmission ==
    [][\A k \in Keys :
          Len(admissions'[k]) > Len(admissions[k]) =>
              /\ Len(admissions'[k]) = Len(admissions[k]) + 1
              /\ Len(admissions[k]) < OPENAI_RPM_PER_KEY]_vars

\* Two threads were past the gate for one credential with one slot left:
\* one was admitted at this instant and filled the window, the other was
\* rejected.
C5_Witness ==
    \E k \in Keys : \E t1, t2 \in Threads :
        /\ api_key[t1] = k /\ pc[t1] = "in_call"
        /\ api_key[t2] = k /\ pc[t2] = "finally" /\ Rejected(t2)
        /\ Len(admissions[k]) = OPENAI_RPM_PER_KEY
        /\ admissions[k][Len(admissions[k])] = now

\* C6: in FAIL_FAST mode a call that reaches the limiter while fewer than
\* OPENAI_RPM_PER_KEY admissions of its credential lie in the trailing
\* minute is admitted and ends with what the low-level caller produced; a
\* call that finds OPENAI_RPM_PER_KEY of them is rejected with the 429
\* error.  So N calls in a fresh window pass and the next one is rejected.
C6_FailFastCapacity ==
    [][OPENAI_RPM_FAIL_FAST =>
          \A t \in Threads :
              /\ (ConsultStep(t)
                    /\ Len(admissions[api_key[t]]) < OPENAI_RPM_PER_KEY)
                 => pc'[t] = "in_call"
              /\ (ConsultStep(t)
                    /\ Len(admissions[api_key[t]]) >= OPENAI_RPM_PER_KEY)
                 => (pc'[t] = "finally" /\ Rejected(t)')
              /\ (pc[t] = "in_call" /\ pc'[t] = "finally")
                 => outcome'[t].kind \in {"result", "exception"}]_vars

\* N admissions of one credential were all made at this very instant, and
\* the call made right after them has been rejected with status 429.
C6_Witness ==
    \E k \in Keys : \E t \in Threads :
        /\ OPENAI_RPM_FAIL_FAST
        /\ Len(admissions[k]) = OPENAI_RPM_PER_KEY
        /\ \A i \in 1..Len(admissions[k]) : admissions[k][i] = now
        /\ api_key[t] = k /\ pc[t] = "finally" /\ Rejected(t)

\* No thread but t has made any call so far: every call up to now was made
\* by t, one after the other.
Sequential(t) ==
    \A u \in Threads \ {t} : pc[u] = "idle"

\* C7 as stated: in FAIL_FAST mode, after the window of a credential has
\* aged out completely, the next N+1 calls made for it one after the other
\* are all admitted.
C7_AllSucceedAfterAgeOut ==
    [][OPENAI_RPM_FAIL_FAST =>
          \A t \in Threads :
              (ConsultStep(t) /\ Sequential(t)
                 /\ epochCalls[api_key[t]] >= 0
                 /\ epochCalls[api_key[t]] + 1 <= OPENAI_RPM_PER_KEY + 1)
              => pc'[t] = "in_call"]_vars

\* C7 amended: in FAIL_FAST mode, after the window of a credential has aged
\* out completely, the next N calls for it are all admitted; call N+1 is
\* admitted only if by then an admission has aged out of the window again,
\* otherwise it is rejected.
C7_FirstNSucceedAfterAgeOut ==
    [][OPENAI_RPM_FAIL_FAST =>
          \A t \in Threads :
              /\ (ConsultStep(t)
                    /\ epochCalls[api_key[t]] >= 0
                    /\ epochCalls[api_key[t]] + 1 <= OPENAI_RPM_PER_KEY)
                 => pc'[t] = "in_call"
              /\ (ConsultStep(t)
                    /\ epochCalls[api_key[t]] = OPENAI_RPM_PER_KEY)
                 => (pc'[t] = "in_call"
                       <=> Len(admissions[api_key[t]]) < OPENAI_RPM_PER_KEY)
      ]_vars

\* After a complete age-out, N calls of the credential were admitted and
\* call N+1, made while all N are still in the window, was rejected.
C7_Witness ==
    \E k \in Keys : \E t \in Threads :
        /\ OPENAI_RPM_FAIL_FAST
        /\ epochCalls[k] = OPENAI_RPM_PER_KEY + 1
        /\ Len(admissions[k]) = OPENAI_RPM_PER_KEY
        /\ api_key[t] = k /\ pc[t] = "finally" /\ Rejected(t)

\* C8: a call the limiter rejected never invoked the low-level caller.
C8_NoCallOnReject ==
    \A t \in Threads :
        outcome[t].kind = "rate_limit" => (apiCalls[t] = 0 /\ ~admitted[t])

\* A call has been rejected in FAIL_FAST mode and is over.
C8_Witness ==
    \E t \in Threads :
        OPENAI_RPM_FAIL_FAST /\ pc[t] = "done" /\ Rejected(t)

\* C9: every rejection is raised as an error with status 429 whose detail
\* names the configured limit and, when the limiter supplied a reset
\* estimate, with a Retry-After header: a whole number of seconds less than
\* a second away from the estimate.
C9_RateLimitError ==
    raised # NoOutcome =>
        /\ raised.kind = "rate_limit"
        /\ raised.status_code = HTTP_TOO_MANY_REQUESTS
        /\ raised.detail_limit = OPENAI_RPM_PER_KEY
        /\ meta_info.reset_in_kind = "float" =>
              /\ raised.has_retry_after
              /\ raised.retry_after \in Nat
              /\ raised.retry_after * UnitsPerSecond
                    > meta_info.reset_in - UnitsPerSecond
              /\ raised.retry_after * UnitsPerSecond
                    < meta_info.reset_in + UnitsPerSecond

\* A rejection with an estimate of 1.2 seconds was raised with a header.
C9_Witness ==
    /\ raised # NoOutcome
    /\ meta_info.reset_in_kind = "float"
    /\ meta_info.reset_in = (12 * UnitsPerSecond) \div 10
    /\ raised.has_retry_after

\* ceil of an estimate, in whole seconds.
CeilSeconds(r) == (r + UnitsPerSecond - 1) \div UnitsPerSecond

\* C10: for every rejection with a reset estimate r >= 0 the Retry-After
\* value is ceil(r).
C10_RetryAfterIsCeil ==
    (raised # NoOutcome /\ meta_info.reset_in_kind = "float"
        /\ meta_info.reset_in >= 0)
    => (raised.has_retry_after
          /\ raised.retry_after = CeilSeconds(meta_info.reset_in))

StepKey(t) == IF pc[t] \in {"idle", "done"} THEN api_key'[t] ELSE api_key[t]

\* C12: credentials are isolated: a step a thread takes for credential A --
\* entering the gate, waiting, being admitted or rejected, calling,
\* releasing -- leaves the RPM window and the semaphore of every other
\* credential B as they were, and with them the limiter's next decision
\* for B.
C12_CredentialIsolation ==
    [][\A t \in Threads :
          pc'[t] # pc[t] =>
              \A b \in Keys \ {StepKey(t)} :
                  /\ bucket'[b] = bucket[b]
                  /\ admissions'[b] = admissions[b]
                  /\ (b \in DOMAIN sems') <=> (b \in DOMAIN sems)
                  /\ b \in DOMAIN sems => sems'[b] = sems[b]
                  /\ LimiterHasRoom(b)' <=> LimiterHasRoom(b)]_vars

\* Credential A is exhausted -- its window is full, its only caller was
\* rejected and still holds A's slot -- while a call of credential B, made
\* after that, is admitted and in flight on B's own slot.
C12_Witness ==
    \E t1, t2 \in Threads :
        /\ api_key[t1] \in Keys /\ api_key[t2] \in Keys
        /\ api_key[t1] # api_key[t2]
        /\ GateEnabled /\ OPENAI_RPM_FAIL_FAST
        /\ pc[t1] = "finally" /\ Rejected(t1)
        /\ ~LimiterHasRoom(api_key[t1])
        /\ sems[api_key[t1]] = 0
        /\ pc[t2] = "in_call" /\ sems[api_key[t2]] = 0
        /\ Len(bucket[api_key[t2]]) = 1

\* C13: a rejected call consumes no token: the rejection leaves the window
\* of its credential, entry for entry, as it was, and with it the time at
\* which the window next has room.
C13_RejectionConsumesNothing ==
    [][\A t \in Threads :
          (ConsultStep(t) /\ pc'[t] = "finally") =>
              /\ bucket' = bucket
              /\ admissions' = admissions
              /\ LimiterMeta(api_key[t])' = LimiterMeta(api_key[t])]_vars

\* Two attempts on a full window were rejected one after the other; the
\* window holds its N admissions, no more, and both rejections carry the
\* same reset estimate.
C13_Witness ==
    \E t1, t2 \in Threads :
        /\ t1 # t2 /\ api_key[t1] \in Keys /\ api_key[t1] = api_key[t2]
        /\ pc[t1] = "finally" /\ Rejected(t1)
        /\ pc[t2] = "finally" /\ Rejected(t2)
        /\ Len(bucket[api_key[t1]]) = OPENAI_RPM_PER_KEY
        /\ outcome[t1].retry_after = outcome[t2].retry_after
        /\ outcome[t1].retry_after > 0

\* C14: every admitted call counts against its credential's window until
\* it ages out, whether the low-level call returns or raises: the window
\* holds exactly the admissions of the trailing minute, an entry leaves it
\* only with the passing of time, and the end of a call takes nothing out.
C14_AdmissionsStayCounted ==
    [][/\ \A k \in Keys :
             /\ Counted(k)' = admissions'[k]
             /\ \/ bucket'[k] = bucket[k]
                \/ bucket'[k] = Append(bucket[k], now)
                \/ /\ now' > now
                   /\ bucket'[k] = Younger(bucket[k], now', MINUTE)
       /\ \A t \in Threads :
             (pc[t] \in {"in_call", "finally"} /\ pc'[t] # pc[t])
             => bucket' = bucket]_vars

\* The low-level call of an admitted request raised; its admission is
\* still one of the N that fill the window, and another call of the same
\* credential is rejected.
C14_Witness ==
    \E t1, t2 \in Threads :
        /\ OPENAI_RPM_FAIL_FAST
        /\ api_key[t1] \in Keys /\ api_key[t1] = api_key[t2]
        /\ pc[t1] = "finally" /\ outcome[t1].kind = "exception"
        /\ pc[t2] = "finally" /\ Rejected(t2)
        /\ Len(Counted(api_key[t1])) = OPENAI_RPM_PER_KEY
        /\ OPENAI_RPM_PER_KEY = 1

\* C15: with OPENAI_MAX_CONCURRENCY_PER_KEY at 0 or below the gate is off:
\* no semaphore is ever created, no call holds one, a caller at the gate
\* can always go on however many calls are in flight, and leaving a call
\* releases nothing.
C15_GateDisabled ==
    OPENAI_MAX_CONCURRENCY_PER_KEY <= 0 =>
        /\ sems = << >>
        /\ \A t \in Threads :
              /\ ~sem[t]
              /\ pc[t] = "acquire" => ENABLED SemAcquire(t)
              /\ pc[t] = "finally" => ENABLED (Finally(t) /\ sems' = sems)

\* The gate is off and every thread is inside call_openai_api for the same
\* credential at once.
C15_Witness ==
    /\ OPENAI_MAX_CONCURRENCY_PER_KEY <= 0
    /\ \E k \in Keys : InFlight(k) = Threads
    /\ sems = << >>

\* The order of the positions inside one call.
CallOrder ==
    { <<"idle", "acquire">>, <<"done", "acquire">>,
      <<"acquire", "ratelimit">>,
      <<"ratelimit", "in_call">>, <<"ratelimit", "finally">>,
      <<"in_call", "finally">>, <<"finally", "done">> }

\* C16: inside each call the slot is acquired first, then the limiter is
\* consulted once, for the call's credential and with the slot held, then
\* (only if admitted) the low-level caller runs, and the slot is released
\* last; a rejected call has given its slot back by the time the error is
\* with the caller.
C16_StepOrder ==
    [][\A t \in Threads :
          /\ pc'[t] # pc[t] => << pc[t], pc'[t] >> \in CallOrder
          /\ (pc[t] = "acquire" /\ pc'[t] = "ratelimit" /\ GateEnabled)
             => sems'[api_key[t]] = sems[api_key[t]] - 1
          /\ ConsultStep(t)
             => /\ GateEnabled => t \in Holders(api_key[t])
                /\ apiCalls[t] = 0
                /\ \A b \in Keys \ {api_key[t]} : bucket'[b] = bucket[b]
          /\ apiCalls'[t] > apiCalls[t]
             => (ConsultStep(t) /\ admitted'[t] /\ pc'[t] = "in_call")
          /\ (pc[t] = "in_call" /\ GateEnabled)
             => t \in Holders(api_key[t])
          /\ (pc[t] = "finally" /\ pc'[t] = "done")
             => /\ GateEnabled
                   => sems'[api_key[t]] = sems[api_key[t]] + 1
                /\ outcome'[t] = outcome[t]]_vars

\* One thread alone made two calls with the gate on: the first was
\* admitted, the second was rejected, and now that the error is with the
\* caller every permit is back.
C16_Witness ==
    \E t \in Threads :
        /\ GateEnabled /\ OPENAI_RPM_FAIL_FAST
        /\ pc[t] = "done" /\ Rejected(t)
        /\ Sequential(t)
        /\ sems # << >>
        /\ \A k \in DOMAIN sems : sems[k] = OPENAI_MAX_CONCURRENCY_PER_KEY

\* Thread t's call is over or in its finally clause: its outcome is fixed.
Ended(t) == pc[t] \in {"finally", "done"} /\ outcome[t] # NoOutcome

\* C17: the facade is transparent on admission: an admitted call ends with
\* exactly the response call_openai_api returned or exactly the exception
\* it raised; the rate-limit error is the only outcome the facade makes
\* itself, and it makes it only in a step in which the limiter, finding the
\* window full, rejected the call.
C17_Transparent ==
    /\ [](\A t \in Threads :
             Ended(t) =>
                 /\ admitted[t] => (lowLevel[t] \in ApiOutcomes
                                      /\ outcome[t] = lowLevel[t])
                 /\ ~admitted[t] => (lowLevel[t] = NoOutcome /\ Rejected(t))
                 /\ outcome[t].kind = "rate_limit" => ~admitted[t])
    /\ [][\A t \in Threads :
             (outcome'[t].kind = "rate_limit"
                /\ outcome[t].kind # "rate_limit")
             => (ConsultStep(t) /\ ~LimiterHasRoom(api_key[t])
                   /\ OPENAI_RPM_FAIL_FAST)]_vars

\* With FAIL_FAST on, one admitted call ended with the exception the
\* low-level caller raised and another with the incomplete response it
\* returned, both handed on as they were.
C17_Witness ==
    \E t1, t2 \in Threads :
        /\ OPENAI_RPM_FAIL_FAST
        /\ pc[t1] = "done" /\ admitted[t1]
        /\ outcome[t1] = ExceptionOutcome("RuntimeError")
        /\ lowLevel[t1] = outcome[t1]
        /\ pc[t2] = "done" /\ admitted[t2]
        /\ outcome[t2] = ResultOutcome("incomplete")
        /\ lowLevel[t2] = outcome[t2]

\* C18: the gateway never retries: one call invokes call_openai_api at most
\* once, only at its admission; a call that was rejected has invoked it
\* zero times and a call whose low-level call failed exactly once, and
\* once a call has its outcome no further invocation follows.
C18_NoRetry ==
    /\ [](\A t \in Threads :
             /\ apiCalls[t] <= 1
             /\ outcome[t].kind = "rate_limit" => apiCalls[t] = 0
             /\ outcome[t].kind = "exception" => apiCalls[t] = 1)
    /\ [][\A t \in Threads :
             /\ apiCalls'[t] > apiCalls[t]
                => (outcome[t] = NoOutcome /\ apiCalls[t] = 0)
             /\ (outcome[t] # NoOutcome /\ pc'[t] # "acquire")
                => (apiCalls'[t] = apiCalls[t]
                      /\ pc'[t] \in {"finally", "done"})]_vars

\* Every call is over: one ended with the low-level caller's exception
\* after a single invocation, another with the rate-limit error after none.
C18_Witness ==
    /\ \A t \in Threads : pc[t] = "done"
    /\ \E t \in Threads :
          outcome[t].kind = "exception" /\ apiCalls[t] = 1
    /\ \E t \in Threads : Rejected(t) /\ apiCalls[t] = 0

\* C19: gate state is created lazily and once per credential: whatever the
\* interleaving of the callers, at most one Semaphore is ever constructed
\* for a credential, with OPENAI_MAX_CONCURRENCY_PER_KEY permits and only
\* inside a call for that credential; every caller is handed the object
\* stored for its credential; and a stored object is never replaced or
\* removed.
C19_OneSemaphorePerKey ==
    /\ [](/\ \A k \in Keys :
               /\ made[k] <= 1
               /\ (made[k] = 1) <=> (semOf[k] # NoSem)
               /\ (made[k] = 1) <=> (k \in DOMAIN sems)
               /\ k \in DOMAIN sems
                  => sems[k] = OPENAI_MAX_CONCURRENCY_PER_KEY
          /\ \A t \in Threads :
               (gpc[t] = "out" /\ gkey[t] \in Keys /\ GateEnabled)
               => (gret[t] # NoSem /\ gret[t] = semOf[gkey[t]]))
    /\ [][\A k \in Keys :
             /\ semOf[k] # NoSem => semOf'[k] = semOf[k]
             /\ k \in DOMAIN sems
                => (k \in DOMAIN sems' /\ sems'[k] = sems[k])
             /\ made'[k] > made[k]
                => \E t \in Threads : gkey[t] = k /\ gpc[t] = "create"
         ]_vars

\* Two first calls for one credential overlap: one thread has just made
\* the credential's only Semaphore and still holds the lock, the other is
\* waiting for the lock.
C19_Witness ==
    \E t1, t2 \in Threads :
        /\ gkey[t1] \in Keys /\ gkey[t1] = gkey[t2]
        /\ gpc[t1] = "return" /\ sem_lock = t1
        /\ made[gkey[t1]] = 1 /\ gsem[t1] = semOf[gkey[t1]]
        /\ gpc[t2] = "lock" /\ gret[t2] = NoSem

\* C20: a caller at the gate is held back only while all C slots of its
\* credential are held: with fewer than C holders it can go on at once,
\* and it is blocked exactly when C callers hold the slots.
C20_GateNotOverRestrictive ==
    GateEnabled =>
        \A t \in Threads :
            pc[t] = "acquire" =>
                /\ Cardinality(Holders(api_key[t]))
                      < OPENAI_MAX_CONCURRENCY_PER_KEY
                   => ENABLED SemAcquire(t)
                /\ ~ENABLED SemAcquire(t)
                   => Cardinality(Holders(api_key[t]))
                         = OPENAI_MAX_CONCURRENCY_PER_KEY

\* The cap is reached and then frees up: a caller is blocked at the gate
\* while the holders of its credential number C, one of them already in
\* its finally clause.
C20_Witness ==
    \E t1, t2 \in Threads :
        /\ GateEnabled
        /\ pc[t1] = "acquire" /\ ~ENABLED SemAcquire(t1)
        /\ Cardinality(Holders(api_key[t1])) = OPENAI_MAX_CONCURRENCY_PER_KEY
        /\ t2 \in Holders(api_key[t1])
        /\ pc[t2] = "finally" /\ apiCalls[t2] = 1

\* ceil(K / C) for the K = NumThreads callers and cap C.
Batches ==
    (NumThreads + OPENAI_MAX_CONCURRENCY_PER_KEY - 1)
        \div OPENAI_MAX_CONCURRENCY_PER_KEY

AllCalled(k) == \A t \in Threads : pc[t] # "idle" /\ api_key[t] = k

AllDone == \A t \in Threads : pc[t] = "done"

AllRanLowLevel == \A t \in Threads : lowLevel[t].kind # "none"

\* C21: with the gate enabled (cap C > 0) and K >= C callers of one
\* credential, each making a low-level call that lasts CallSecs, the time
\* at which all K calls are over is at least ceil(K / C) * CallSecs after
\* the start; and once all K have called, all K calls come to an end, each
\* with a low-level call when the RPM limit leaves room for K.
C21_MinimumDuration ==
    /\ [](\A k \in Keys :
             (/\ GateEnabled
              /\ NumThreads >= OPENAI_MAX_CONCURRENCY_PER_KEY
              /\ DOMAIN sems = {k}
              /\ AllDone
              /\ AllRanLowLevel)
             => now >= Batches * CallSecs)
    /\ \A k \in Keys :
          AllCalled(k)
              ~> (AllDone /\ (RateLimit >= NumThreads => AllRanLowLevel))

\* All callers used one credential behind an enabled gate, every one made
\* its low-level call, and they are done exactly ceil(K / C) durations
\* after the start.
C21_Witness ==
    /\ GateEnabled
    /\ DOMAIN sems = {"key-A"}
    /\ AllDone
    /\ AllRanLowLevel
    /\ Batches > 1
    /\ now = Batches * CallSecs

\* C22: once set_test_impl(fake) has run, every gateway call of every call
\* site runs that fake: a call made while the module global names a test
\* double ran the double, also at a site that imported the function by
\* name.
C22_SwapReachesEveryCallSite ==
    \A s \in Sites :
        ran[s].global \in Fakes => ran[s].impl = ran[s].global

\* GET /jobs/{job_id}: the SELECT finds a row (otherwise the answer is 404).
JobFound(j) == jobs[j].status # "absent"

\* C23: every job accepted over HTTP has a job record that
\* GET /jobs/{job_id} finds, and once the job's worker has finished the
\* record's status is completed or failed.
C23_AcceptedJobsEndVisible ==
    \A j \in JobIds :
        hpc[j] = "finished"
            => JobFound(j) /\ jobs[j].status \in {"completed", "failed"}

\* C24: when call_openai_api raises, the job's handler marks the job
\* failed with the error text as error_message: on leaving the try
\* statement after an exception of the model call (for a batch: of the
\* model call of one of its prompts) the job's record is failed, and for
\* the handlers with one model call it carries that exception's text.
C24_FailedCallMarksJobFailed ==
    \A j \in JobIds :
        hpc[j] = "decrement" =>
            /\ response[j].outcome.kind = "exception" =>
                  /\ jobs[j].status = "failed"
                  /\ jobs[j].error_message
                         = ErrorText(response[j].outcome.value)
            /\ batch[j].raised => jobs[j].status = "failed"

\* The response handed to job j's handler is one whose status is not
\* 'completed'.
NotCompleted(r) == r.outcome.kind = "result" /\ r.outcome.value # "completed"

\* C25: when call_openai_api returns a response whose status is not
\* 'completed', the handler fails the unit of work with a message that
\* carries incomplete_details.reason, 'unknown' when there is none: the
\* step stores no result and no completed status; a job that has a record
\* gets status failed and the message "OpenAI API failed: <reason>"; in a
\* batch the prompt is counted among the failed ones and nothing is stored
\* for it.
C25_IncompleteResponseFails ==
    [][\A j \in JobIds :
          /\ (/\ hpc[j] = "in_model"
              /\ hpc'[j] # "in_model"
              /\ NotCompleted(response'[j]))
             => /\ jobs'[j].status # "completed"
                /\ jobs'[j].result = jobs[j].result
                /\ JobFound(j) =>
                      /\ jobs'[j].status = "failed"
                      /\ jobs'[j].error_message =
                            IF response'[j].reason = "none"
                            THEN "OpenAI API failed: unknown"
                            ELSE "OpenAI API failed: max_output_tokens"
          /\ (/\ hpc[j] = "workers"
              /\ batch'[j].calling < batch[j].calling
              /\ NotCompleted(response'[j]))
             => /\ batch'[j].failed = batch[j].failed + 1
                /\ jobs'[j] = jobs[j]
      ]_vars

\* A job whose model call returned an incomplete response without a reason
\* has left the try statement, failed with 'unknown' in its message.
C25_Witness ==
    \E j \in JobIds :
        /\ hpc[j] = "decrement"
        /\ request[j].handler = "classification"
        /\ NotCompleted(response[j])
        /\ response[j].reason = "none"
        /\ jobs[j].status = "failed"
        /\ jobs[j].error_message = "OpenAI API failed: unknown"

\* C26: job-store calls are fire-and-forget.  No call of create_job or
\* update_job_status raises to its caller; when the call fails inside --
\* the database raises, or create_job is given a job_id that has a record
\* -- the jobs table is left as it was and create_job returns False; a
\* create_job that succeeds returns True and leaves a queued record.
C26_StoreCallsNeverRaise ==
    [][(store_ret = "pending" /\ store_ret' # "pending") =>
          LET c == store_call
              fails == \/ ~c.db_ok
                       \/ /\ c.fn = "create_job"
                          /\ jobs[c.job_id].status # "absent"
          IN  /\ store_ret' # "raised"
              /\ fails => /\ jobs' = jobs
                          /\ c.fn = "create_job" => store_ret' = "False"
              /\ (~fails /\ c.fn = "create_job")
                     => /\ store_ret' = "True"
                        /\ jobs'[c.job_id].status = "queued"
      ]_vars

\* create_job was called, with a working database, for a job_id whose
\* record is already completed: it returned False and the record stands.
C26_Witness ==
    /\ store_call.fn = "create_job"
    /\ store_call.db_ok
    /\ store_ret = "False"
    /\ jobs[store_call.job_id].status = "completed"
    /\ jobs[store_call.job_id].result = "json"

\* C27: progress in BLOCK mode.  With every low-level call ending and time
\* advancing, a caller that has entered call_openai_rate_limited comes out
\* of it, with the response or with the exception of call_openai_api: it
\* waits forever neither at the gate nor at the limiter; and as long as a
\* call is unfinished some step can be taken (gate and limiter do not
\* deadlock).
C27_BlockModeProgress ==
    /\ \A t \in Threads :
          (~OPENAI_RPM_FAIL_FAST /\ pc[t] = "acquire")
              ~> (/\ pc[t] = "done"
                  /\ outcome[t].kind \in {"result", "exception"}
                  /\ outcome[t] = lowLevel[t])
    /\ [](~OPENAI_RPM_FAIL_FAST => (AllDone \/ ENABLED NextLive))

\* In BLOCK mode, behind an enabled gate and a window with room for one,
\* both callers of one credential are done: the second waited at the gate
\* for the first and then at the limiter for the window.
C27_Witness ==
    /\ ~OPENAI_RPM_FAIL_FAST
    /\ GateEnabled
    /\ RateLimit = 1
    /\ DOMAIN sems = {"key-A"}
    /\ AllDone
    /\ AllRanLowLevel
    /\ now = RateInterval + CallSecs

Waiters(k) == {t \in Threads : api_key[t] = k /\ WaitsForWindow(t)}

\* C29: in BLOCK mode a caller that waits for an RPM token goes on holding
\* its concurrency slot: the waiters of a credential count toward its cap
\* C (the free permits never exceed C less the waiters), and while C
\* callers wait for tokens no other caller of that credential can pass the
\* gate.
C29_WaitersHoldSlots ==
    \A k \in DOMAIN sems :
        (~OPENAI_RPM_FAIL_FAST /\ OPENAI_MAX_CONCURRENCY_PER_KEY > 0) =>
            /\ Waiters(k) \subseteq Holders(k)
            /\ sems[k] <= OPENAI_MAX_CONCURRENCY_PER_KEY
                              - Cardinality(Waiters(k))
            /\ Cardinality(Waiters(k)) = OPENAI_MAX_CONCURRENCY_PER_KEY
                  => \A u \in Threads :
                        (pc[u] = "acquire" /\ api_key[u] = k)
                            => ~ENABLED SemAcquire(u)

\* C callers of a credential wait for the window while another caller of
\* the same credential stands at the gate.
C29_Witness ==
    \E k \in DOMAIN sems :
        /\ ~OPENAI_RPM_FAIL_FAST
        /\ OPENAI_MAX_CONCURRENCY_PER_KEY > 0
        /\ Cardinality(Waiters(k)) = OPENAI_MAX_CONCURRENCY_PER_KEY
        /\ \E u \in Threads : pc[u] = "acquire" /\ api_key[u] = k

\* C30: a rejection whose meta_info has no 'reset_in' entry, an unreadable
\* one or a negative one is still raised with status 429 but without a
\* Retry-After header; the header is present exactly when a non-negative
\* estimate was supplied.
C30_RetryAfterOnlyForEstimate ==
    raised # NoOutcome =>
        /\ raised.status_code = HTTP_TOO_MANY_REQUESTS
        /\ raised.has_retry_after
              <=> (meta_info.reset_in_kind = "float"
                     /\ meta_info.reset_in >= 0)

\* A rejection with a negative estimate was raised with status 429 and no
\* header.
C30_Witness ==
    /\ raised # NoOutcome
    /\ meta_info.reset_in_kind = "float"
    /\ meta_info.reset_in < 0
    /\ raised.status_code = HTTP_TOO_MANY_REQUESTS
    /\ ~raised.has_retry_after

\* C31: check_and_increment_rate_limits is all-or-nothing: the step by which
\* it admits a job raises the user's and the key's counter by exactly 1, and
\* a step by which it refuses one changes neither counter.
C31_AllOrNothing ==
    [][\A j \in JobIds :
          LET u == request[j].user_id
              k == request[j].openai_api_key
          IN  /\ (ok[j] = "none" /\ ok'[j] = "True")
                    => /\ user_jobs'[u] = user_jobs[u] + 1
                       /\ key_jobs'[k] = key_jobs[k] + 1
              /\ (ok[j] = "none" /\ ok'[j] = "False")
                    => UNCHANGED << user_jobs, key_jobs >>]_vars

\* A job that check_and_increment_rate_limits admitted and whose handler has
\* not yet reached the end of decrement_rate_limits.
Running(j) ==
    /\ ok[j] = "True"
    /\ hpc[j] \in {"prepare", "call", "in_model", "workers", "record",
                   "decrement"}

RunningOf(u, k) ==
    { j \in JobIds : /\ Running(j)
                     /\ u \in {request[j].user_id, "any"}
                     /\ k \in {request[j].openai_api_key, "any"} }

\* C32: under any interleaving of job threads, the jobs admitted and not yet
\* decremented never number more than MAX_JOBS_PER_USER for one user nor
\* more than MAX_JOBS_PER_API_KEY for one API key.
C32_AdmittedWithinLimits ==
    /\ \A u \in Users :
          Cardinality(RunningOf(u, "any")) <= MAX_JOBS_PER_USER
    /\ \A k \in Keys :
          Cardinality(RunningOf("any", k)) <= MAX_JOBS_PER_API_KEY

\* C33: in every handler a job whose admission was refused is marked failed
\* with a 'Rate limit exceeded' error and its handler is over: it goes on
\* neither to the model call nor to decrement_rate_limits.
C33_RefusedJobsFailWithoutCall ==
    \A j \in JobIds :
        ok[j] = "False" =>
            /\ hpc[j] = "finished"
            /\ jobs[j].status = "failed"
            /\ jobs[j].error_message = "Rate limit exceeded"

\* C34: each user's and each API key's current_jobs counter equals the
\* number of that user's or key's jobs that were admitted and have not yet
\* finished; in particular every counter is 0 when no job is running.
C34_CountersMatchRunningJobs ==
    /\ \A u \in Users : user_jobs[u] = Cardinality(RunningOf(u, "any"))
    /\ \A k \in Keys : key_jobs[k] = Cardinality(RunningOf("any", k))

C36_ProgressMonotone ==
    /\ [](\A j \in JobIds :
            /\ jobs[j].progress \in {0, 10, 40, 100}
            /\ jobs[j].status = "queued" => jobs[j].progress = 0
            /\ jobs[j].status \in {"completed", "failed"}
                  => jobs[j].progress = 100)
    /\ [][\A j \in JobIds : jobs'[j].progress >= jobs[j].progress]_vars

\* One job failed after passing 40 and stands at 100 although its handler
\* passed no progress, while another is still at 40.
C36_Witness ==
    \E i \in JobIds, j \in JobIds :
        /\ jobs[i].status = "failed" /\ jobs[i].progress = 100
        /\ hpc[i] \in {"decrement", "finished"} /\ ok[i] = "True"
        /\ jobs[j].status = "processing" /\ jobs[j].progress = 40

C38_EveryItemAccounted ==
    ppc \in {"returned", "raised"} =>
        /\ ppc = "returned"
        /\ \A i \in DOMAIN prompt_items :
              \/ /\ exec_ret[i].success
                 /\ exec_ret[i].data \subseteq final_result.keys
              \/ /\ ~exec_ret[i].success
                 /\ \E n \in DOMAIN final_result.execution_errors :
                       final_result.execution_errors[n] =
                           [prompt_type |-> prompt_items[i],
                            error |-> exec_ret[i].error]

=============================================================================
